---------------------------- MODULE Spec2Model ----------------------------
(***************************************************************************)
(* State-machine model of the SRP electronics firmware (Software/src):     *)
(*   - actuators.cpp     time base, beep queue, pins, servo compare value  *)
(*   - state_machine.cpp the flight state machine polled by the main loop  *)
(*   - lbp.cpp           the launch box protocol link layer and dispatcher *)
(*   - main.cpp          the domain command handler lbp_handler            *)
(* Interrupt handlers and main-loop calls are the actions.  Sensor pins    *)
(* and the ADC are inputs, drawn afresh at every poll.  One iteration of   *)
(* the main loop and one run of an interrupt handler are single steps.     *)
(***************************************************************************)
EXTENDS Integers, Sequences, FiniteSets, TLC

(***************************************************************************)
(* Bounds of the model.                                                    *)
(***************************************************************************)
\* The 16-bit time base timer_20ms is scaled: it counts modulo TimerModulus,
\* and the deploy times held in the configuration are below TimerModulus.
TimerModulus == 2
\* Beep durations passed to buzzer_beep() by the free-running buzzer
\* harness range over 0..MaxBeep.
MaxBeep == 1
\* Packets sent through the looped-back link carry 0..MaxVarData payload
\* bytes drawn freely from LinkBytes, or LBP_BUFFER_SIZE - 3 - k filler
\* bytes for k in 0..MaxShort.
MaxVarData == 1
MaxShort == 1
\* Bytes received in one run of the receiver fed from outside.
MaxRxBytes == 7
\* Length of the byte sequences folded by the CRC harness.
MaxCrcLen == 2
\* Timer interrupts and flight-state changes in one run of the flight
\* computer.
MaxTicks == 3
MaxTransitions == 6
\* Request frames received in one run of the flight computer.
MaxFrames == 1
\* Timer interrupts between two consecutive polls of the flight harness with
\* free poll spacing: at least two full periods of the scaled time base.
MaxGap == 4
\* Beeps accepted into the queue in one run of the drain harness (fewer than
\* BUZZER_QUEUE_SIZE, so that no slot is used twice).
MaxDrain == 2
\* Beeps accepted into the queue in one run of the FIFO harness: enough to
\* fill the queue and, after a pop, to wrap around its end.
MaxAccepted == 9
\* Request frames received, and calls of lbp_get_tx_buffer() made by the
\* main loop, in one run of the interrupt-level model.
MaxIrqFrames == 2
MaxMainCalls == 2
\* Payload bytes of the requests put to the dispatcher (next to two
\* requests that fill the receive buffer).
MaxPayload == 2

(***************************************************************************)
(* Program constants.                                                      *)
(***************************************************************************)
ON == 1
OFF == 0

BEEP_SHORT == 12
BEEP_NORMAL == 25
BEEP_LONG == 50
BEEP_FOREVER == 255

BUZZER_QUEUE_SIZE == 8

BUZZER_OFF == 0
BUZZER_ON == 1
BUZZER_COOLDOWN == 2

ERROR == 0
SYSTEMS_CHECK == 1
IDLE == 2
PREPARATION == 3
ARMED == 4
LAUNCHED == 5
DEPLOYED == 6

CHAR_ESCAPE == 80
CHAR_START == 85
CHAR_STOP == 90

STATE_IDLE == 0
STATE_FRAME == 1
STATE_ESCAPING == 2
STATE_ENDING == 3
STATE_FILLING == 4

LBP_BUFFER_SIZE == 32

LBP_TYPE_MASK == 192
LBP_SEQNUM_MASK == 192
LBP_ADDRESS_MASK == 63

LBP_SYNC == 0
LBP_REPLY == 64
LBP_ASYNC == 128
LBP_BROADCAST == 192

LBP_SOURCE_ADDRESS == 63

LBP_NACK == 1
LBP_IDENTIFY == 2
LBP_IDENTIFY_ASYNC_REPLY == 3
LBP_EXTENDED_IDENTIFY == 3
LBP_NETWORK_DISCOVERY == 4
LBP_STATUS_REQUEST == 6
LBP_STATUS_REQUEST_ASYNC_REPLY == 7

LBP_IDENTIFY_CONTENT_0 == 176
LBP_IDENTIFY_CONTENT_1 == 1
LBP_EXTENDED_IDENTIFY_CONTENT_0 == 11
LBP_EXTENDED_IDENTIFY_CONTENT_1 == 0
\* "SRP V0.0 " as character codes (the terminating NUL is not part of it)
LBP_EXTENDED_IDENTIFY_NAME == <<83, 82, 80, 32, 86, 48, 46, 48, 32>>

LBP_GET_MIN_DEPLOY_TIME == 16
LBP_SET_MIN_DEPLOY_TIME == 32
LBP_GET_MAX_DEPLOY_TIME == 17
LBP_SET_MAX_DEPLOY_TIME == 33
LBP_GET_MEASURED_DEPLOY_TIME == 18
LBP_GET_BATTERY_VOLTAGE == 19
LBP_GET_BATTERY_EMPTY_LIMIT == 20
LBP_SET_BATTERY_EMPTY_LIMIT == 36
LBP_GET_DEPLOY_MODE == 21
LBP_SET_DEPLOY_MODE == 37
LBP_GET_SERVO_CLOSED_POSITION == 22
LBP_SET_SERVO_CLOSED_POSITION == 38
LBP_GET_SERVO_OPEN_POSITION == 23
LBP_SET_SERVO_OPEN_POSITION == 39
LBP_SET_SERVO_POSITION == 40
LBP_GET_ADDRESS == 25
LBP_SET_ADDRESS == 41

\* EEPROM defaults (eeprom.cpp)
DEFAULT_MIN_DEPLOY_TIME == 500
DEFAULT_MAX_DEPLOY_TIME == 700
DEFAULT_BATTERY_EMPTY_LIMIT == 166
DEFAULT_USE_SERVO == 1
DEFAULT_SERVO_CLOSED_POSITION == 0
DEFAULT_SERVO_OPEN_POSITION == 255
DEFAULT_LBP_ADDRESS == 0

(***************************************************************************)
(* uint8_t arithmetic.                                                     *)
(***************************************************************************)
Byte == 0..255

RECURSIVE BitXor(_, _, _)
\* a ^ b on the low n bits
BitXor(a, b, n) ==
    IF n = 0 THEN 0
    ELSE (((a % 2) + (b % 2)) % 2) + 2 * BitXor(a \div 2, b \div 2, n - 1)

RECURSIVE BitAnd(_, _, _)
\* a & b on the low n bits
BitAnd(a, b, n) ==
    IF n = 0 THEN 0
    ELSE ((a % 2) * (b % 2)) + 2 * BitAnd(a \div 2, b \div 2, n - 1)

RECURSIVE BitOr(_, _, _)
\* a | b on the low n bits
BitOr(a, b, n) ==
    IF n = 0 THEN 0
    ELSE (IF (a % 2) = 1 \/ (b % 2) = 1 THEN 1 ELSE 0)
         + 2 * BitOr(a \div 2, b \div 2, n - 1)

Xor8(a, b) == BitXor(a, b, 8)
And8(a, b) == BitAnd(a, b, 8)
Or8(a, b) == BitOr(a, b, 8)
\* ~byte stored back into a uint8_t
Not8(a) == 255 - a


(***************************************************************************)
(* lbp.cpp: the CRC of the launch box protocol.                            *)
(***************************************************************************)
RECURSIVE crc8_rounds(_, _)
\* the loop body of crc8, i more rounds to go
crc8_rounds(crc, i) ==
    IF i = 0 THEN crc
    ELSE IF (crc % 2) = 1
         THEN crc8_rounds(Xor8(crc \div 2, 140), i - 1)
         ELSE crc8_rounds(crc \div 2, i - 1)

\* a plausible slip: the data byte replaces the accumulator instead of being
\* folded into it
crc8_NoFold(data, crc) == crc8_rounds(data, 8)

crc8(data, crc) == crc8_rounds(Xor8(crc, data), 8)

RECURSIVE CrcOf(_)
\* the accumulator after folding a byte sequence, starting from 0
CrcOf(bytes) ==
    IF bytes = <<>> THEN 0
    ELSE crc8(bytes[Len(bytes)], CrcOf(SubSeq(bytes, 1, Len(bytes) - 1)))

(***************************************************************************)
(* Program state.                                                          *)
(***************************************************************************)
VARIABLES
    flight_state,           \* state_machine.cpp: state_type flight_state
    eeprom,                 \* eeprom.cpp: the EEMEM configuration variables
    timer_20ms,             \* actuators.cpp: the time base
    buzzer_queue,           \* actuators.cpp: [index, length, queue]
    buzzer_state,           \* actuators.cpp: BUZZER_OFF / ON / COOLDOWN
    current_beep_duration,  \* actuators.cpp
    pin,                    \* output pins driven through WRITE_PIN
    OCR1B,                  \* timer 1 compare B: the servo pulse width
    rx_link_state,          \* lbp.cpp
    rx_crc,                 \* lbp.cpp
    lbp_rx_buffer,          \* lbp.cpp: the lbp_rx_buffer_length bytes stored
    tx_link_state,          \* lbp.cpp
    tx_crc,                 \* lbp.cpp
    lbp_tx_buffer,          \* lbp.cpp: all LBP_BUFFER_SIZE bytes
    lbp_tx_buffer_length,   \* lbp.cpp
    lbp_tx_buffer_index,    \* lbp.cpp
    tx_line,                \* bytes written to UDR0 since the last START
    last_rx,                \* what the last receive interrupt did
    SREG_I,                 \* the global interrupt enable flag of the CPU
    TXC0,                   \* the transmit-complete interrupt flag of USART0
    rx_isr,                 \* receive interrupt handlers inside parse_packet
    harness                 \* state of the test harness driving the code

flight_vars == <<flight_state, eeprom, timer_20ms, pin, OCR1B>>
buzzer_vars == <<buzzer_queue, buzzer_state, current_beep_duration>>
rx_vars == <<rx_link_state, rx_crc, lbp_rx_buffer, last_rx>>
tx_vars == <<tx_link_state, tx_crc, lbp_tx_buffer, lbp_tx_buffer_length,
             lbp_tx_buffer_index, tx_line>>
cpu_vars == <<SREG_I, TXC0, rx_isr>>
device_vars == <<flight_vars, buzzer_vars, rx_vars, tx_vars, cpu_vars>>
vars == <<device_vars, harness>>

lbp_rx_buffer_length == Len(lbp_rx_buffer)

(***************************************************************************)
(* Inputs read from the pins and the ADC.                                  *)
(***************************************************************************)
\* ADC readings at and just above the default empty limit
BatteryValues == {DEFAULT_BATTERY_EMPTY_LIMIT, DEFAULT_BATTERY_EMPTY_LIMIT + 1}

\* one reading of every sensor: is_armed(), is_breakwire_connected(),
\* is_squib_connected(), is_vote_asserted(), get_battery_value()
Inputs == [armed : BOOLEAN, breakwire : BOOLEAN, squib : BOOLEAN,
           vote : BOOLEAN, battery : BatteryValues]

\* the values the scaled time base and the deploy times range over
DeployTimes == 0..(TimerModulus - 1)

(***************************************************************************)
(* actuators.cpp                                                           *)
(***************************************************************************)
\* a plausible slip: the full-queue guard is missing
buzzer_beep_NoGuard(q, length) ==
    [q EXCEPT !.queue[(q.index + q.length) % BUZZER_QUEUE_SIZE].duration = length,
              !.length = (q.length + 1) % 256]

\* a plausible slip: the slot of a new entry is computed from the count
\* alone, without the read index
buzzer_beep_NoIndex(q, length) ==
    IF q.length # BUZZER_QUEUE_SIZE
    THEN [q EXCEPT !.queue[q.length % BUZZER_QUEUE_SIZE].duration = length,
                   !.length = q.length + 1]
    ELSE q

\* buzzer_beep(length) applied to the queue q
buzzer_beep(q, length) ==
    IF q.length # BUZZER_QUEUE_SIZE
    THEN [q EXCEPT !.queue[(q.index + q.length) % BUZZER_QUEUE_SIZE].duration = length,
                   !.length = q.length + 1]
    ELSE q

\* WRITE_PIN(name, val) applied to the pins p
WRITE_PIN(p, name, val) == [p EXCEPT ![name] = val]

\* the value set_servo_position(position) writes to OCR1B
servo_compare(position) == 921 + ((position * 231) \div 64)

\* timer_tick()
timer_tick == timer_20ms' = (timer_20ms + 1) % TimerModulus

\* a plausible slip: the cooldown does not restart the tick count
buzzer_tick_NoReset(bz) ==
    IF buzzer_state = BUZZER_OFF
    THEN IF buzzer_queue.length # 0
         THEN /\ buzzer_state' = BUZZER_ON
              /\ current_beep_duration' = 0
              /\ bz = 1
              /\ UNCHANGED buzzer_queue
         ELSE /\ bz = pin.BUZZER_PIN
              /\ UNCHANGED <<buzzer_queue, buzzer_state, current_beep_duration>>
    ELSE LET d == (current_beep_duration + 1) % 256 IN
         IF d > buzzer_queue.queue[buzzer_queue.index].duration
         THEN IF buzzer_state = BUZZER_ON
              THEN /\ buzzer_state' = BUZZER_COOLDOWN
                   /\ current_beep_duration' = d
                   /\ bz = 0
                   /\ UNCHANGED buzzer_queue
              ELSE LET len == (buzzer_queue.length + 255) % 256 IN
                   /\ buzzer_queue' =
                        [buzzer_queue EXCEPT
                            !.index = (buzzer_queue.index + 1) % BUZZER_QUEUE_SIZE,
                            !.length = len]
                   /\ IF len # 0
                      THEN /\ buzzer_state' = BUZZER_ON
                           /\ current_beep_duration' = 0
                           /\ bz = 1
                      ELSE /\ buzzer_state' = BUZZER_OFF
                           /\ current_beep_duration' = d
                           /\ bz = pin.BUZZER_PIN
         ELSE /\ current_beep_duration' = d
              /\ bz = pin.BUZZER_PIN
              /\ UNCHANGED <<buzzer_queue, buzzer_state>>

\* a plausible slip: the buzzer is not switched off for the cooldown
buzzer_tick_KeepOn(bz) ==
    IF buzzer_state = BUZZER_OFF
    THEN IF buzzer_queue.length # 0
         THEN /\ buzzer_state' = BUZZER_ON
              /\ current_beep_duration' = 0
              /\ bz = 1
              /\ UNCHANGED buzzer_queue
         ELSE /\ bz = pin.BUZZER_PIN
              /\ UNCHANGED <<buzzer_queue, buzzer_state, current_beep_duration>>
    ELSE LET d == (current_beep_duration + 1) % 256 IN
         IF d > buzzer_queue.queue[buzzer_queue.index].duration
         THEN IF buzzer_state = BUZZER_ON
              THEN /\ buzzer_state' = BUZZER_COOLDOWN
                   /\ current_beep_duration' = 0
                   /\ bz = pin.BUZZER_PIN
                   /\ UNCHANGED buzzer_queue
              ELSE LET len == (buzzer_queue.length + 255) % 256 IN
                   /\ buzzer_queue' =
                        [buzzer_queue EXCEPT
                            !.index = (buzzer_queue.index + 1) % BUZZER_QUEUE_SIZE,
                            !.length = len]
                   /\ IF len # 0
                      THEN /\ buzzer_state' = BUZZER_ON
                           /\ current_beep_duration' = 0
                           /\ bz = 1
                      ELSE /\ buzzer_state' = BUZZER_OFF
                           /\ current_beep_duration' = d
                           /\ bz = pin.BUZZER_PIN
         ELSE /\ current_beep_duration' = d
              /\ bz = pin.BUZZER_PIN
              /\ UNCHANGED <<buzzer_queue, buzzer_state>>

\* buzzer_tick(); bz is the level it leaves on the buzzer pin
buzzer_tick(bz) ==
    IF buzzer_state = BUZZER_OFF
    THEN IF buzzer_queue.length # 0
         THEN /\ buzzer_state' = BUZZER_ON
              /\ current_beep_duration' = 0
              /\ bz = 1
              /\ UNCHANGED buzzer_queue
         ELSE /\ bz = pin.BUZZER_PIN
              /\ UNCHANGED <<buzzer_queue, buzzer_state, current_beep_duration>>
    ELSE LET d == (current_beep_duration + 1) % 256 IN
         IF d > buzzer_queue.queue[buzzer_queue.index].duration
         THEN IF buzzer_state = BUZZER_ON
              THEN /\ buzzer_state' = BUZZER_COOLDOWN
                   /\ current_beep_duration' = 0
                   /\ bz = 0
                   /\ UNCHANGED buzzer_queue
              ELSE LET len == (buzzer_queue.length + 255) % 256 IN
                   /\ buzzer_queue' =
                        [buzzer_queue EXCEPT
                            !.index = (buzzer_queue.index + 1) % BUZZER_QUEUE_SIZE,
                            !.length = len]
                   /\ IF len # 0
                      THEN /\ buzzer_state' = BUZZER_ON
                           /\ current_beep_duration' = 0
                           /\ bz = 1
                      ELSE /\ buzzer_state' = BUZZER_OFF
                           /\ current_beep_duration' = d
                           /\ bz = pin.BUZZER_PIN
         ELSE /\ current_beep_duration' = d
              /\ bz = pin.BUZZER_PIN
              /\ UNCHANGED <<buzzer_queue, buzzer_state>>

\* a plausible slip: the handler does not call buzzer_tick()
TIMER1_COMPA_NoBuzzer ==
    /\ timer_tick
    /\ pin' = WRITE_PIN(pin, "SERVO_PIN", 1)
    /\ UNCHANGED <<flight_state, eeprom, OCR1B, buzzer_vars, rx_vars, tx_vars,
                   cpu_vars>>

\* ISR(TIMER1_COMPA_vect): servo_tick(); timer_tick(); buzzer_tick();
TIMER1_COMPA ==
    /\ timer_tick
    /\ \E bz \in {0, 1} :
          /\ buzzer_tick(bz)
          /\ pin' = [pin EXCEPT !.SERVO_PIN = 1, !.BUZZER_PIN = bz]
    /\ UNCHANGED <<flight_state, eeprom, OCR1B, rx_vars, tx_vars, cpu_vars>>

\* ISR(TIMER1_COMPB_vect)
TIMER1_COMPB ==
    /\ pin' = WRITE_PIN(pin, "SERVO_PIN", 0)
    /\ UNCHANGED <<flight_state, eeprom, timer_20ms, OCR1B, buzzer_vars,
                   rx_vars, tx_vars, cpu_vars>>


(***************************************************************************)
(* state_machine.cpp: update_state_machine() as a function of the sensor   *)
(* readings in and of S, the part of the state it works on:                *)
(* [flight_state, eeprom, timer_20ms, buzzer_queue, pin, OCR1B].           *)
(***************************************************************************)
link_vars == <<rx_vars, tx_vars>>
tick_vars == <<buzzer_state, current_beep_duration>>

FlightNow ==
    [flight_state |-> flight_state, eeprom |-> eeprom,
     timer_20ms |-> timer_20ms, buzzer_queue |-> buzzer_queue,
     pin |-> pin, OCR1B |-> OCR1B]

\* the two 'ok' beeps
two_short(q) == buzzer_beep(buzzer_beep(q, BEEP_SHORT), BEEP_SHORT)

\* if (!buzzer_queue_length()) buzzer_beep(length);
beep_if_empty(S, length) ==
    IF S.buzzer_queue.length = 0
    THEN [S EXCEPT !.buzzer_queue = buzzer_beep(@, length)]
    ELSE S

\* a plausible slip: the battery is not looked at when leaving ERROR
error_cleared_NoBattery(in, S) ==
    /\ ~in.armed
    /\ (S.eeprom.use_servo # 0 \/ in.squib)

\* the exit condition of the ERROR case
error_cleared(in, S) ==
    /\ ~in.armed
    /\ in.battery > S.eeprom.battery_empty_limit
    /\ (S.eeprom.use_servo # 0 \/ in.squib)

case_ERROR(in, S) ==
    LET S1 == beep_if_empty(S, BEEP_LONG) IN
    IF error_cleared(in, S1)
    THEN [S1 EXCEPT !.buzzer_queue = two_short(@),
                    !.pin = WRITE_PIN(@, "LED_PIN", ON),
                    !.flight_state = IDLE]
    ELSE S1

\* a plausible slip: a battery exactly at the limit passes the check
check_failed_Strict(in, S) ==
    \/ in.battery < S.eeprom.battery_empty_limit
    \/ (S.eeprom.use_servo = 0 /\ ~in.squib)

\* the failure condition of the SYSTEMS_CHECK case
check_failed(in, S) ==
    \/ in.battery <= S.eeprom.battery_empty_limit
    \/ (S.eeprom.use_servo = 0 /\ ~in.squib)

case_SYSTEMS_CHECK(in, S) ==
    LET S1 == IF S.eeprom.use_servo # 0
              THEN [S EXCEPT !.OCR1B =
                       servo_compare(S.eeprom.servo_closed_position)]
              ELSE S
    IN
    IF check_failed(in, S1)
    THEN [S1 EXCEPT !.flight_state = ERROR]
    ELSE [S1 EXCEPT !.buzzer_queue = two_short(@),
                    !.pin = WRITE_PIN(@, "LED_PIN", ON),
                    !.flight_state = IDLE]

case_IDLE(in, S) ==
    IF in.armed
    THEN [S EXCEPT !.flight_state = ERROR]
    ELSE IF in.breakwire
    THEN [S EXCEPT !.buzzer_queue = two_short(@),
                   !.pin = WRITE_PIN(@, "LED_PIN", OFF),
                   !.flight_state = PREPARATION]
    ELSE S

case_PREPARATION(in, S) ==
    IF ~in.breakwire
    THEN [S EXCEPT !.buzzer_queue = buzzer_beep(@, BEEP_LONG),
                   !.pin = WRITE_PIN(@, "LED_PIN", ON),
                   !.flight_state = IDLE]
    ELSE IF in.armed
    THEN IF S.eeprom.use_servo = 0 /\ ~in.squib
         THEN [S EXCEPT !.flight_state = ERROR]
         ELSE [S EXCEPT !.buzzer_queue = two_short(@),
                        !.pin = WRITE_PIN(@, "LED_PIN", ON),
                        !.flight_state = ARMED]
    ELSE S

\* a plausible slip: the launch is detected without resetting the time base
case_ARMED_NoReset(in, S) ==
    IF ~in.armed
    THEN [S EXCEPT !.buzzer_queue = buzzer_beep(@, BEEP_LONG),
                   !.pin = WRITE_PIN(@, "LED_PIN", OFF),
                   !.flight_state = PREPARATION]
    ELSE IF ~in.breakwire
    THEN [S EXCEPT !.pin = WRITE_PIN(@, "LAUNCH_ASSERTED_PIN", ON),
                   !.flight_state = LAUNCHED]
    ELSE S

case_ARMED(in, S) ==
    IF ~in.armed
    THEN [S EXCEPT !.buzzer_queue = buzzer_beep(@, BEEP_LONG),
                   !.pin = WRITE_PIN(@, "LED_PIN", OFF),
                   !.flight_state = PREPARATION]
    ELSE IF ~in.breakwire
    THEN [S EXCEPT !.timer_20ms = 0,
                   !.pin = WRITE_PIN(@, "LAUNCH_ASSERTED_PIN", ON),
                   !.flight_state = LAUNCHED]
    ELSE S

\* a plausible slip: the vote alone deploys, whatever the time
deploy_due_NoMin(in, S) ==
    \/ S.timer_20ms >= S.eeprom.max_deploy_time
    \/ in.vote

\* a plausible slip: the maximum time deploys only together with the vote
deploy_due_VoteOnly(in, S) ==
    /\ \/ S.timer_20ms >= S.eeprom.max_deploy_time
       \/ S.timer_20ms >= S.eeprom.min_deploy_time
    /\ in.vote

\* the deploy condition of the LAUNCHED case, get_timer() reading timer_20ms
deploy_due(in, S) ==
    \/ S.timer_20ms >= S.eeprom.max_deploy_time
    \/ (S.timer_20ms >= S.eeprom.min_deploy_time /\ in.vote)

\* a plausible slip: the charge is fired on the first poll after the launch,
\* before the deploy condition is looked at
case_LAUNCHED_FireEarly(in, S) ==
    LET S1 == beep_if_empty(S, BEEP_SHORT)
        S2 == IF S1.eeprom.use_servo # 0
              THEN [S1 EXCEPT !.OCR1B =
                       servo_compare(S1.eeprom.servo_open_position)]
              ELSE [S1 EXCEPT !.pin = WRITE_PIN(@, "PYRO_PIN", ON)]
    IN
    IF deploy_due(in, S1)
    THEN [S2 EXCEPT !.eeprom.last_logged_deploy_time = S2.timer_20ms,
                    !.flight_state = DEPLOYED]
    ELSE S2

case_LAUNCHED(in, S) ==
    LET S1 == beep_if_empty(S, BEEP_SHORT)
        S2 == IF S1.eeprom.use_servo # 0
              THEN [S1 EXCEPT !.OCR1B =
                       servo_compare(S1.eeprom.servo_open_position)]
              ELSE [S1 EXCEPT !.pin = WRITE_PIN(@, "PYRO_PIN", ON)]
    IN
    IF deploy_due(in, S1)
    THEN [S2 EXCEPT !.eeprom.last_logged_deploy_time = S2.timer_20ms,
                    !.flight_state = DEPLOYED]
    ELSE S1

\* a plausible slip: the terminal state falls back when the switch is opened
case_DEPLOYED_Disarm(in, S) ==
    [beep_if_empty(S, BEEP_LONG) EXCEPT
        !.flight_state = IF in.armed THEN DEPLOYED ELSE PREPARATION]

case_DEPLOYED(in, S) == beep_if_empty(S, BEEP_LONG)

update_state_machine(in, S) ==
    CASE S.flight_state = ERROR -> case_ERROR(in, S)
      [] S.flight_state = SYSTEMS_CHECK -> case_SYSTEMS_CHECK(in, S)
      [] S.flight_state = IDLE -> case_IDLE(in, S)
      [] S.flight_state = PREPARATION -> case_PREPARATION(in, S)
      [] S.flight_state = ARMED -> case_ARMED(in, S)
      [] S.flight_state = LAUNCHED -> case_LAUNCHED(in, S)
      [] S.flight_state = DEPLOYED -> case_DEPLOYED(in, S)

\* main.cpp: update(), one iteration of the main loop, with the sensors
\* reading in
update(in) ==
    LET S == update_state_machine(in, FlightNow) IN
    /\ flight_state' = S.flight_state
    /\ eeprom' = S.eeprom
    /\ timer_20ms' = S.timer_20ms
    /\ buzzer_queue' = S.buzzer_queue
    /\ pin' = S.pin
    /\ OCR1B' = S.OCR1B
    /\ UNCHANGED <<tick_vars, link_vars, cpu_vars>>


(***************************************************************************)
(* lbp.cpp: the transmit side.  The transmit state is handled as a record  *)
(* T = [state, crc, buf, len, idx, line] so that calls can be chained;     *)
(* buf[i + 1] is lbp_tx_buffer[i].                                         *)
(***************************************************************************)
TxNow == [state |-> tx_link_state, crc |-> tx_crc, buf |-> lbp_tx_buffer,
          len |-> lbp_tx_buffer_length, idx |-> lbp_tx_buffer_index,
          line |-> tx_line]

TxSet(T) ==
    /\ tx_link_state' = T.state
    /\ tx_crc' = T.crc
    /\ lbp_tx_buffer' = T.buf
    /\ lbp_tx_buffer_length' = T.len
    /\ lbp_tx_buffer_index' = T.idx
    /\ tx_line' = T.line

\* the fields of an lbp_packet held in a byte sequence
srcinfo(p) == p[1]
destinfo(p) == p[2]
id(p) == p[3]
data(p, k) == p[4 + k]

LBP_TYPE(p) == And8(srcinfo(p), LBP_TYPE_MASK)
LBP_SRC_ADDR(p) == And8(srcinfo(p), LBP_ADDRESS_MASK)
LBP_SEQNUM(p) == And8(destinfo(p), LBP_SEQNUM_MASK)

\* writes through the reply pointer, which is the transmit buffer
reply_srcinfo(T, v) == [T EXCEPT !.buf[1] = v]
reply_destinfo(T, v) == [T EXCEPT !.buf[2] = v]
reply_id(T, v) == [T EXCEPT !.buf[3] = v]
reply_data(T, k, v) == [T EXCEPT !.buf[4 + k] = v]

\* a plausible slip: the buffer is handed out whatever the transmit state
lbp_get_tx_buffer_NoCheck(T) ==
    [reply |-> TRUE,
     tx |-> [T EXCEPT !.state = STATE_FILLING, !.buf[1] = LBP_SOURCE_ADDRESS]]

\* lbp_get_tx_buffer(): reply tells whether the buffer is returned (FALSE
\* stands for NULL), tx is the transmit state it leaves
lbp_get_tx_buffer(T) ==
    IF T.state = STATE_IDLE
    THEN [reply |-> TRUE,
          tx |-> [T EXCEPT !.state = STATE_FILLING,
                           !.buf[1] = LBP_SOURCE_ADDRESS]]
    ELSE [reply |-> FALSE, tx |-> T]

\* lbp_send_message() up to and including UDR0 = CHAR_START
send_start(T, data_length) ==
    [T EXCEPT !.len = (data_length + 3) % 256,
              !.idx = 0,
              !.crc = 0,
              !.line = <<CHAR_START>>]

\* its last statement, tx_link_state = STATE_FRAME
send_state(T) == [T EXCEPT !.state = STATE_FRAME]

lbp_send_message(T, data_length) == send_state(send_start(T, data_length))

\* a plausible slip: the message is dropped but the buffer is not released
lbp_discard_message_Keep(T) == T

lbp_discard_message(T) == [T EXCEPT !.state = STATE_IDLE]

must_escape(byte) ==
    byte = CHAR_STOP \/ byte = CHAR_START \/ byte = CHAR_ESCAPE

\* ISR(USART0_TX_vect) applied to T
tx_isr(T) ==
    IF T.state = STATE_IDLE \/ T.state = STATE_FILLING THEN T
    ELSE IF T.state = STATE_ENDING
    THEN [T EXCEPT !.line = Append(@, CHAR_STOP), !.state = STATE_IDLE]
    ELSE IF T.idx = T.len
    THEN IF T.state = STATE_ESCAPING
         THEN [T EXCEPT !.line = Append(@, Not8(T.crc)), !.state = STATE_ENDING]
         ELSE IF must_escape(T.crc)
         THEN [T EXCEPT !.line = Append(@, CHAR_ESCAPE), !.state = STATE_ESCAPING]
         ELSE [T EXCEPT !.line = Append(@, T.crc), !.state = STATE_ENDING]
    ELSE IF T.state = STATE_ESCAPING
    THEN [T EXCEPT !.line = Append(@, Not8(T.buf[T.idx])), !.state = STATE_FRAME]
    ELSE LET byte == T.buf[T.idx + 1] IN
         IF must_escape(byte)
         THEN [T EXCEPT !.idx = T.idx + 1, !.crc = crc8(byte, T.crc),
                        !.line = Append(@, CHAR_ESCAPE), !.state = STATE_ESCAPING]
         ELSE [T EXCEPT !.idx = T.idx + 1, !.crc = crc8(byte, T.crc),
                        !.line = Append(@, byte)]

\* ISR(USART0_TX_vect)
USART0_TX ==
    /\ TxSet(tx_isr(TxNow))
    /\ UNCHANGED <<flight_vars, buzzer_vars, rx_vars, cpu_vars>>

\* ISR(USART0_TX_vect) as the hardware runs it: when the byte written to
\* UDR0 last has been shifted out, which sets the flag TXC0, and interrupts
\* are enabled.  Running the handler clears the flag; the byte it writes,
\* if it writes one, sets it again once shifted out.  (USART0_TX above is the
\* handler run at any moment, flag or no flag.)
USART0_TX_flagged ==
    /\ TXC0 = 1
    /\ SREG_I = 1
    /\ TxSet(tx_isr(TxNow))
    /\ TXC0' = IF tx_isr(TxNow).line # tx_line THEN 1 ELSE 0
    /\ UNCHANGED <<flight_vars, buzzer_vars, rx_vars, SREG_I, rx_isr>>

(***************************************************************************)
(* main.cpp: lbp_handler.  ee is the configuration, ocr the servo compare  *)
(* value, battery the reading get_battery_value() returns.  The result is  *)
(* [tx, eeprom, OCR1B].                                                    *)
(***************************************************************************)
\* uint16_t from two payload bytes, little endian
word(p) == data(p, 1) * 256 + data(p, 0)

\* reply with the value just set
echo1(p, T) == lbp_send_message(reply_data(T, 0, data(p, 0)), 1)
echo2(p, T) ==
    lbp_send_message(reply_data(reply_data(T, 0, data(p, 0)), 1, data(p, 1)), 2)
\* a plausible slip: the value read is not stored in the reply
send1_NoData(T, v) == lbp_send_message(T, 1)

\* reply with a value read
send1(T, v) == lbp_send_message(reply_data(T, 0, v), 1)
send2(T, v) ==
    lbp_send_message(reply_data(reply_data(T, 1, v \div 256), 0, v % 256), 2)

\* a plausible slip: the reply keeps the id of the request
nack_KeepId(T) == lbp_send_message(T, 0)

\* reply->id = LBP_NACK; lbp_send_message(0);
nack(T) == lbp_send_message(reply_id(T, LBP_NACK), 0)

lbp_handler(p, data_length, T0, ee, ocr, battery) ==
    LET T == reply_id(T0, id(p))
        set(field, v, T1) ==
            [tx |-> T1, eeprom |-> [ee EXCEPT ![field] = v], OCR1B |-> ocr]
        get(T1) == [tx |-> T1, eeprom |-> ee, OCR1B |-> ocr]
    IN
    IF id(p) >= 32
    THEN CASE id(p) = LBP_SET_MIN_DEPLOY_TIME /\ data_length = 2 ->
                set("min_deploy_time", word(p), echo2(p, T))
           [] id(p) = LBP_SET_MAX_DEPLOY_TIME /\ data_length = 2 ->
                set("max_deploy_time", word(p), echo2(p, T))
           [] id(p) = LBP_SET_BATTERY_EMPTY_LIMIT /\ data_length = 1 ->
                set("battery_empty_limit", data(p, 0), echo1(p, T))
           [] id(p) = LBP_SET_DEPLOY_MODE /\ data_length = 1 ->
                set("use_servo", data(p, 0), echo1(p, T))
           [] id(p) = LBP_SET_SERVO_CLOSED_POSITION /\ data_length = 1 ->
                set("servo_closed_position", data(p, 0), echo1(p, T))
           [] id(p) = LBP_SET_SERVO_OPEN_POSITION /\ data_length = 1 ->
                set("servo_open_position", data(p, 0), echo1(p, T))
           [] id(p) = LBP_SET_SERVO_POSITION /\ data_length = 1 ->
                [tx |-> echo1(p, T), eeprom |-> ee,
                 OCR1B |-> servo_compare(data(p, 0))]
           [] id(p) = LBP_SET_ADDRESS /\ data_length = 1 ->
                set("lbp_address", data(p, 0), echo1(p, T))
           [] OTHER -> get(nack(T))
    ELSE IF data_length = 0
    THEN CASE id(p) = LBP_GET_MIN_DEPLOY_TIME ->
                get(send2(T, ee.min_deploy_time))
           [] id(p) = LBP_GET_MAX_DEPLOY_TIME ->
                get(send2(T, ee.max_deploy_time))
           [] id(p) = LBP_GET_MEASURED_DEPLOY_TIME ->
                get(send2(T, ee.last_logged_deploy_time))
           [] id(p) = LBP_GET_BATTERY_VOLTAGE -> get(send1(T, battery))
           [] id(p) = LBP_GET_BATTERY_EMPTY_LIMIT ->
                get(send1(T, ee.battery_empty_limit))
           [] id(p) = LBP_GET_DEPLOY_MODE -> get(send1(T, ee.use_servo))
           [] id(p) = LBP_GET_SERVO_CLOSED_POSITION ->
                get(send1(T, ee.servo_closed_position))
           [] id(p) = LBP_GET_SERVO_OPEN_POSITION ->
                get(send1(T, ee.servo_open_position))
           [] id(p) = LBP_GET_ADDRESS -> get(send1(T, ee.lbp_address))
           [] OTHER -> get(nack(T))
    ELSE get(nack(T))


(***************************************************************************)
(* lbp.cpp: parse_packet.  p is the receive buffer, fs the flight state    *)
(* read by lbp_state_error() and lbp_state_armed().  The result is         *)
(* [rx, tx, eeprom, OCR1B], rx being the receive buffer as the function    *)
(* leaves it.                                                              *)
(***************************************************************************)
lbp_state_error(fs) == fs = ERROR
lbp_state_armed(fs) == fs >= ARMED

\* writes through the packet pointer, which is the receive buffer
packet_srcinfo_or(p, v) == [p EXCEPT ![1] = Or8(p[1], v)]
packet_id(p, v) == [p EXCEPT ![3] = v]

RECURSIVE copy_name(_, _)
\* the loop copying LBP_EXTENDED_IDENTIFY_NAME into reply->data
copy_name(T, k) ==
    IF k = 0 THEN T
    ELSE reply_data(copy_name(T, k - 1), k - 1, LBP_EXTENDED_IDENTIFY_NAME[k])

\* a plausible slip: every request that is not a reply counts as synchronous
is_sync_NotReply(p) == LBP_TYPE(p) # LBP_REPLY

\* LBP_TYPE(packet) == LBP_SYNC
is_sync(p) == LBP_TYPE(p) = LBP_SYNC

\* a plausible slip: both bytes of the identification go to data[0]
identify_content_SameSlot(T) ==
    reply_data(reply_data(T, 0, LBP_IDENTIFY_CONTENT_0), 0, LBP_IDENTIFY_CONTENT_1)

\* the reply data of LBP_IDENTIFY
identify_content(T) ==
    reply_data(reply_data(T, 0, LBP_IDENTIFY_CONTENT_0), 1, LBP_IDENTIFY_CONTENT_1)

\* a plausible slip: the whole name is sent
name_reply_Whole(T) ==
    lbp_send_message(copy_name(T, Len(LBP_EXTENDED_IDENTIFY_NAME)),
                     Len(LBP_EXTENDED_IDENTIFY_NAME))

\* page 1 of LBP_EXTENDED_IDENTIFY: the name copied, temp - 1 bytes sent
name_reply(T) ==
    lbp_send_message(copy_name(T, Len(LBP_EXTENDED_IDENTIFY_NAME)),
                     Len(LBP_EXTENDED_IDENTIFY_NAME) - 1)

\* parse_packet from the return of lbp_get_tx_buffer() on, T1 being the
\* transmit state with the buffer claimed
parse_packet_reply(p, data_length, T1, ee, ocr, battery, fs) ==
    LET keep(p1, T2) == [rx |-> p1, tx |-> T2, eeprom |-> ee, OCR1B |-> ocr]
        T == reply_destinfo(T1, Or8(LBP_SRC_ADDR(p), LBP_SEQNUM(p)))
        sync == is_sync(p)
        \* packet->srcinfo |= sync ? LBP_REPLY : LBP_ASYNC, then the id chosen
        \* from the type bits as they are after that
        marked == packet_srcinfo_or(p, IF sync THEN LBP_REPLY ELSE LBP_ASYNC)
        remarked(sync_id, async_id) ==
            packet_id(marked, IF LBP_TYPE(marked) = LBP_ASYNC
                              THEN async_id ELSE sync_id)
        as_reply == packet_srcinfo_or(p, LBP_REPLY)
        page == IF data_length < 1 THEN 0 ELSE data(p, 0)
        status == Or8(16, Or8(IF lbp_state_error(fs) THEN 4 ELSE 0,
                              IF lbp_state_armed(fs) THEN 1 ELSE 0))
    IN
    IF LBP_TYPE(p) = LBP_REPLY THEN keep(p, lbp_discard_message(T))
    ELSE IF id(p) < 16
    THEN CASE id(p) = LBP_NACK -> keep(p, lbp_discard_message(T))
           [] id(p) = LBP_IDENTIFY ->
                keep(remarked(LBP_IDENTIFY, LBP_IDENTIFY_ASYNC_REPLY),
                     lbp_send_message(identify_content(T), 2))
           [] id(p) = LBP_EXTENDED_IDENTIFY ->
                IF ~sync THEN keep(p, lbp_discard_message(T))
                ELSE IF page >= 16
                THEN keep(packet_id(as_reply, LBP_NACK), lbp_send_message(T, 0))
                ELSE IF page = 0
                THEN keep(packet_id(as_reply, LBP_EXTENDED_IDENTIFY),
                          lbp_send_message(
                             reply_data(reply_data(T, 0, LBP_EXTENDED_IDENTIFY_CONTENT_0),
                                        1, LBP_EXTENDED_IDENTIFY_CONTENT_1), 2))
                ELSE IF page = 1
                THEN keep(packet_id(as_reply, LBP_EXTENDED_IDENTIFY),
                          name_reply(T))
                ELSE keep(packet_id(as_reply, LBP_EXTENDED_IDENTIFY),
                          lbp_send_message(T, 0))
           [] id(p) = LBP_NETWORK_DISCOVERY ->
                IF sync
                THEN keep(packet_id(as_reply, LBP_NACK), lbp_send_message(T, 0))
                ELSE keep(p, lbp_discard_message(T))
           [] id(p) = LBP_STATUS_REQUEST ->
                keep(remarked(LBP_STATUS_REQUEST, LBP_STATUS_REQUEST_ASYNC_REPLY),
                     lbp_send_message(reply_data(T, 0, status), 1))
           [] OTHER ->
                IF sync
                THEN keep(packet_id(as_reply, LBP_NACK), lbp_send_message(T, 0))
                ELSE keep(p, lbp_discard_message(T))
    ELSE IF sync
    THEN LET h == lbp_handler(p, data_length,
                              reply_srcinfo(T, Or8(srcinfo(T.buf), LBP_REPLY)),
                              ee, ocr, battery)
         IN [rx |-> p, tx |-> h.tx, eeprom |-> h.eeprom, OCR1B |-> h.OCR1B]
    ELSE keep(p, lbp_discard_message(T))

parse_packet(p, data_length, T0, ee, ocr, battery, fs) ==
    LET g == lbp_get_tx_buffer(T0) IN
    IF ~g.reply
    THEN [rx |-> p, tx |-> g.tx, eeprom |-> ee, OCR1B |-> ocr]
    ELSE parse_packet_reply(p, data_length, g.tx, ee, ocr, battery, fs)

(***************************************************************************)
(* lbp.cpp: the receive interrupt.                                         *)
(***************************************************************************)
\* a plausible slip: the CRC of a complete frame is not checked
frame_ok_NoCrc(crc, length) == length >= 4

\* the test guarding the call of parse_packet at a STOP
frame_ok(crc, length) == crc = 0 /\ length >= 4

\* what no call of parse_packet leaves in last_rx
NoDispatch(byte) ==
    [byte |-> byte, dispatched |-> FALSE, packet |-> <<>>, data_length |-> 0]

\* "this is a valid data bit, add it": the tail of the handler
rx_store(byte, state) ==
    /\ IF lbp_rx_buffer_length = LBP_BUFFER_SIZE
       THEN /\ rx_link_state' = STATE_IDLE
            /\ UNCHANGED <<rx_crc, lbp_rx_buffer>>
       ELSE /\ rx_link_state' = state
            /\ lbp_rx_buffer' = Append(lbp_rx_buffer, byte)
            /\ rx_crc' = crc8(byte, rx_crc)
    /\ UNCHANGED <<eeprom, OCR1B, tx_vars>>

\* ISR(USART0_RX_vect) with UDR0 reading byte and, should lbp_handler ask
\* for it, get_battery_value() reading battery
USART0_RX(byte, battery) ==
    /\ IF rx_link_state = STATE_ESCAPING
       THEN /\ rx_store(Not8(byte), STATE_FRAME)
            /\ last_rx' = NoDispatch(byte)
       ELSE IF rx_link_state = STATE_FRAME
       THEN CASE byte = CHAR_ESCAPE ->
                   /\ rx_link_state' = STATE_ESCAPING
                   /\ last_rx' = NoDispatch(byte)
                   /\ UNCHANGED <<rx_crc, lbp_rx_buffer, eeprom, OCR1B, tx_vars>>
              [] byte = CHAR_START ->
                   /\ rx_link_state' = STATE_IDLE
                   /\ last_rx' = NoDispatch(byte)
                   /\ UNCHANGED <<rx_crc, lbp_rx_buffer, eeprom, OCR1B, tx_vars>>
              [] byte = CHAR_STOP ->
                   /\ rx_link_state' = STATE_IDLE
                   /\ UNCHANGED rx_crc
                   /\ IF frame_ok(rx_crc, lbp_rx_buffer_length)
                      THEN LET r == parse_packet(lbp_rx_buffer,
                                                 lbp_rx_buffer_length - 4,
                                                 TxNow, eeprom, OCR1B, battery,
                                                 flight_state)
                           IN /\ lbp_rx_buffer' = r.rx
                              /\ TxSet(r.tx)
                              /\ eeprom' = r.eeprom
                              /\ OCR1B' = r.OCR1B
                              /\ last_rx' = [byte |-> byte,
                                             dispatched |-> TRUE,
                                             packet |-> lbp_rx_buffer,
                                             data_length |-> lbp_rx_buffer_length - 4]
                      ELSE /\ last_rx' = NoDispatch(byte)
                           /\ UNCHANGED <<lbp_rx_buffer, eeprom, OCR1B, tx_vars>>
              [] OTHER ->
                   /\ rx_store(byte, rx_link_state)
                   /\ last_rx' = NoDispatch(byte)
       ELSE IF byte = CHAR_START
       THEN /\ lbp_rx_buffer' = <<>>
            /\ rx_link_state' = STATE_FRAME
            /\ rx_crc' = 0
            /\ last_rx' = NoDispatch(byte)
            /\ UNCHANGED <<eeprom, OCR1B, tx_vars>>
       ELSE /\ rx_store(byte, rx_link_state)
            /\ last_rx' = NoDispatch(byte)
    /\ UNCHANGED <<flight_state, timer_20ms, pin, buzzer_vars, cpu_vars>>


(***************************************************************************)
(* The receive interrupt at the level of the interrupt flag.  Entering a   *)
(* handler clears the flag and reti sets it; ATOMIC is cli(), the block,   *)
(* sei().  A handler that calls parse_packet is taken in three steps:      *)
(* up to the call (flag cleared), lbp_get_tx_buffer() with its ATOMIC      *)
(* block, and the rest of parse_packet up to reti.  rx_isr holds one frame *)
(* [pc, data_length, packet] for every handler inside parse_packet, the    *)
(* innermost last; packet is the receive buffer as it was at the call,     *)
(* which is what the memory beyond lbp_rx_buffer_length still holds.       *)
(***************************************************************************)
\* the interrupt flag after ATOMIC(block), whatever it was before
ATOMIC(I) == 1

\* the handler running in the innermost position
top_isr == rx_isr[Len(rx_isr)]
pop_isr == SubSeq(rx_isr, 1, Len(rx_isr) - 1)

\* the bytes the packet pointer of frame f points at: what has been stored
\* since over what was there at the call
rx_memory(f) ==
    IF lbp_rx_buffer_length >= Len(f.packet) THEN lbp_rx_buffer
    ELSE [i \in 1..Len(f.packet) |->
             IF i <= lbp_rx_buffer_length THEN lbp_rx_buffer[i] ELSE f.packet[i]]

\* ISR(USART0_RX_vect) from its entry to the call of parse_packet, or to its
\* reti when it does not call it
rx_enter(byte, battery) ==
    /\ SREG_I = 1
    /\ IF /\ rx_link_state = STATE_FRAME
          /\ byte = CHAR_STOP
          /\ frame_ok(rx_crc, lbp_rx_buffer_length)
       THEN /\ rx_link_state' = STATE_IDLE
            /\ SREG_I' = 0
            /\ rx_isr' = Append(rx_isr, [pc |-> "parse",
                                         data_length |-> lbp_rx_buffer_length - 4,
                                         packet |-> lbp_rx_buffer])
            /\ last_rx' = [byte |-> byte, dispatched |-> TRUE,
                           packet |-> lbp_rx_buffer,
                           data_length |-> lbp_rx_buffer_length - 4]
            /\ UNCHANGED <<rx_crc, lbp_rx_buffer, flight_vars, buzzer_vars,
                           tx_vars, TXC0>>
       ELSE USART0_RX(byte, battery)

\* reply = lbp_get_tx_buffer(); if (!reply) return;
rx_acquire ==
    /\ rx_isr # <<>>
    /\ top_isr.pc = "parse"
    /\ LET g == lbp_get_tx_buffer(TxNow) IN
          /\ TxSet(g.tx)
          /\ IF g.reply
             THEN /\ rx_isr' = [rx_isr EXCEPT ![Len(rx_isr)].pc = "reply"]
                  /\ SREG_I' = ATOMIC(SREG_I)
             ELSE /\ rx_isr' = pop_isr
                  /\ SREG_I' = 1
    /\ UNCHANGED <<flight_vars, buzzer_vars, rx_vars, TXC0>>

\* the rest of parse_packet, then reti
rx_reply(battery) ==
    /\ rx_isr # <<>>
    /\ top_isr.pc = "reply"
    /\ LET r == parse_packet_reply(rx_memory(top_isr), top_isr.data_length,
                                   TxNow, eeprom, OCR1B, battery, flight_state)
       IN /\ lbp_rx_buffer' = SubSeq(r.rx, 1, lbp_rx_buffer_length)
          /\ TxSet(r.tx)
          /\ eeprom' = r.eeprom
          /\ OCR1B' = r.OCR1B
    /\ rx_isr' = pop_isr
    /\ SREG_I' = 1
    /\ UNCHANGED <<flight_state, timer_20ms, pin, buzzer_vars, rx_link_state,
                   rx_crc, last_rx, TXC0>>

(***************************************************************************)
(* The state after init(): static data zeroed, pins low, the configuration *)
(* as persisted in the EEPROM.                                             *)
(***************************************************************************)
\* configurations the EEPROM may hold at boot: the defaults of eeprom.cpp,
\* with the deploy times (scaled) and the deploy mode as set earlier through
\* the serial link
Configs ==
    [min_deploy_time : DeployTimes,
     max_deploy_time : DeployTimes,
     last_logged_deploy_time : {0},
     battery_empty_limit : {DEFAULT_BATTERY_EMPTY_LIMIT},
     use_servo : {0, DEFAULT_USE_SERVO},
     servo_closed_position : {DEFAULT_SERVO_CLOSED_POSITION},
     servo_open_position : {DEFAULT_SERVO_OPEN_POSITION},
     lbp_address : {DEFAULT_LBP_ADDRESS}]

\* the configuration of a device never configured
DefaultConfig ==
    [min_deploy_time |-> DEFAULT_MIN_DEPLOY_TIME,
     max_deploy_time |-> DEFAULT_MAX_DEPLOY_TIME,
     last_logged_deploy_time |-> 0,
     battery_empty_limit |-> DEFAULT_BATTERY_EMPTY_LIMIT,
     use_servo |-> DEFAULT_USE_SERVO,
     servo_closed_position |-> DEFAULT_SERVO_CLOSED_POSITION,
     servo_open_position |-> DEFAULT_SERVO_OPEN_POSITION,
     lbp_address |-> DEFAULT_LBP_ADDRESS]

\* the harness state: counters of the bounded environments, the packet or
\* frame in transit, the CRC accumulator under test
NoHarness == [ticks |-> 0, transitions |-> 0, frames |-> 0,
              sent |-> <<>>, fed |-> 0, looping |-> FALSE, dispatches |-> 0,
              acc |-> 0, folded |-> 0, closed |-> FALSE,
              accepted |-> <<>>, played |-> <<>>,
              level |-> <<>>, met |-> 0, pulse |-> <<>>, served |-> -1,
              app |-> "idle", calls |-> 0, refused |-> {},
              request |-> <<>>, battery |-> 0]

InitDevice ==
    /\ flight_state = SYSTEMS_CHECK
    /\ timer_20ms = 0
    /\ buzzer_queue = [index |-> 0, length |-> 0,
                       queue |-> [i \in 0..(BUZZER_QUEUE_SIZE - 1) |->
                                    [duration |-> 0]]]
    /\ buzzer_state = BUZZER_OFF
    /\ current_beep_duration = 0
    /\ pin = [BUZZER_PIN |-> 0, PYRO_PIN |-> 0, SERVO_PIN |-> 0, LED_PIN |-> 0,
              LAUNCH_ASSERTED_PIN |-> 0]
    /\ OCR1B = 0
    /\ rx_link_state = STATE_IDLE
    /\ rx_crc = 0
    /\ lbp_rx_buffer = <<>>
    /\ tx_link_state = STATE_IDLE
    /\ tx_crc = 0
    /\ lbp_tx_buffer = [i \in 1..LBP_BUFFER_SIZE |-> 0]
    /\ lbp_tx_buffer_length = 0
    /\ lbp_tx_buffer_index = 0
    /\ tx_line = <<>>
    /\ last_rx = NoDispatch(0)
    /\ SREG_I = 1
    /\ TXC0 = 0
    /\ rx_isr = <<>>
    /\ harness = NoHarness

(***************************************************************************)
(* Spec: the flight computer.  The main loop polls the state machine, the  *)
(* timer interrupt ticks, request frames arrive on the serial line and the *)
(* replies are transmitted.                                                *)
(***************************************************************************)
Init ==
    /\ InitDevice
    /\ eeprom \in Configs

\* one iteration of the main loop
Poll ==
    /\ \E in \in Inputs : update(in)
    /\ flight_state' # flight_state => harness.transitions < MaxTransitions
    /\ harness' = [harness EXCEPT !.transitions =
                      IF flight_state' # flight_state THEN @ + 1 ELSE @]

\* the 20 ms interrupt
Tick ==
    /\ harness.ticks < MaxTicks
    /\ TIMER1_COMPA
    /\ harness' = [harness EXCEPT !.ticks = @ + 1]

\* the bytes a peer puts on the line for packet p: START, the packet and its
\* CRC with START, STOP and ESCAPE stuffed, STOP
RECURSIVE Stuff(_)
Stuff(bytes) ==
    IF bytes = <<>> THEN <<>>
    ELSE LET byte == Head(bytes) IN
         (IF must_escape(byte) THEN <<CHAR_ESCAPE, Not8(byte)>> ELSE <<byte>>)
         \o Stuff(Tail(bytes))

Frame(p) == <<CHAR_START>> \o Stuff(Append(p, CrcOf(p))) \o <<CHAR_STOP>>

\* the requests the launch box sends during a flight: a synchronous servo
\* command for the middle position, from address 0
Requests == { <<LBP_SYNC, 0, LBP_SET_SERVO_POSITION, 128>> }

\* the receive interrupt for the first byte of a request frame
RxFirst ==
    /\ harness.fed = Len(harness.sent)
    /\ harness.frames < MaxFrames
    /\ \E p \in Requests :
          harness' = [harness EXCEPT !.sent = Frame(p), !.fed = 1,
                                     !.frames = @ + 1]
    /\ \E battery \in BatteryValues : USART0_RX(CHAR_START, battery)

\* the receive interrupt for the next byte of the frame under way;
\* harness.served is the flight state in which the request was dispatched
RxNext ==
    /\ harness.fed < Len(harness.sent)
    /\ \E battery \in BatteryValues :
          USART0_RX(harness.sent[harness.fed + 1], battery)
    /\ harness' = [harness EXCEPT !.fed = @ + 1,
                                  !.served = IF last_rx'.dispatched
                                             THEN flight_state ELSE @]

\* the transmit-complete interrupt
TxComplete ==
    /\ USART0_TX
    /\ UNCHANGED harness

Next ==
    \/ Poll
    \/ Tick
    \/ RxFirst
    \/ RxNext
    \/ TxComplete

Spec == Init /\ [][Next]_vars

(***************************************************************************)
(* SpecDeploy: the flight computer with free poll spacing.  The main loop  *)
(* keeps polling and the timer keeps ticking; between two polls up to      *)
(* MaxGap timer interrupts are served, more than a period of the time      *)
(* base.  harness.ticks counts the interrupts since the last poll.         *)
(***************************************************************************)
\* the sensor readings of a nominal flight in which the vote is never
\* asserted: battery good and squib connected; switch open and breakwire
\* connected on the pad, then armed, then the breakwire torn off
FlightInputs ==
    { in \in Inputs :
        /\ in.squib
        /\ in.battery > DEFAULT_BATTERY_EMPTY_LIMIT
        /\ ~in.vote
        /\ flight_state \in {SYSTEMS_CHECK, IDLE} => (~in.armed /\ in.breakwire)
        /\ flight_state = PREPARATION => (in.armed /\ in.breakwire)
        /\ flight_state = ARMED => (in.armed /\ ~in.breakwire) }

\* one iteration of the main loop
DeployPoll ==
    /\ \E in \in FlightInputs : update(in)
    /\ harness' = [harness EXCEPT !.ticks = 0]

\* the 20 ms interrupt
DeployTick ==
    /\ harness.ticks < MaxGap
    /\ TIMER1_COMPA
    /\ harness' = [harness EXCEPT !.ticks = @ + 1]

NextDeploy ==
    \/ DeployPoll
    \/ DeployTick

\* the main loop never ends and the timer interrupt is always served
SpecDeploy ==
    Init /\ [][NextDeploy]_vars /\ WF_vars(DeployPoll) /\ WF_vars(DeployTick)

(***************************************************************************)
(* SpecCrc: crc8() folded over byte sequences of up to MaxCrcLen bytes,    *)
(* then over the accumulator itself as lbp.cpp does with the CRC byte of a *)
(* frame.                                                                  *)
(***************************************************************************)
InitDefault ==
    /\ InitDevice
    /\ eeprom = DefaultConfig

\* one more byte of the sequence
Fold ==
    /\ ~harness.closed
    /\ harness.folded < MaxCrcLen
    /\ \E byte \in Byte :
          harness' = [harness EXCEPT !.acc = crc8(byte, @), !.folded = @ + 1]
    /\ UNCHANGED device_vars

\* the CRC byte after the sequence
Close ==
    /\ ~harness.closed
    /\ harness' = [harness EXCEPT !.acc = crc8(@, @), !.closed = TRUE]
    /\ UNCHANGED device_vars

NextCrc ==
    \/ Fold
    \/ Close

SpecCrc == InitDefault /\ [][NextCrc]_vars

(***************************************************************************)
(* SpecBuzzer: the beep queue under buzzer_beep() calls of the main loop   *)
(* (test.cpp calls it with durations of its own) and the timer interrupts. *)
(***************************************************************************)
BeepDurations == 0..MaxBeep

\* buzzer_beep(length) called from the main loop
Beep ==
    /\ \E length \in BeepDurations :
          buzzer_queue' = buzzer_beep(buzzer_queue, length)
    /\ UNCHANGED <<flight_vars, tick_vars, link_vars, cpu_vars, harness>>

\* the 20 ms interrupt, unbounded
FreeTick ==
    /\ TIMER1_COMPA
    /\ UNCHANGED harness

\* the end of the servo pulse
PulseEnd ==
    /\ TIMER1_COMPB
    /\ UNCHANGED harness

NextBuzzer ==
    \/ Beep
    \/ FreeTick
    \/ PulseEnd

SpecBuzzer == InitDefault /\ [][NextBuzzer]_vars

(***************************************************************************)
(* SpecFifo: the beep queue with a record of what went in and what came    *)
(* out.  The main loop calls buzzer_beep() until MaxAccepted entries were  *)
(* accepted; the timer interrupt plays and pops them.  harness.level is    *)
(* the level of the buzzer pin after each timer interrupt since the entry  *)
(* at the read index began to play, harness.met the number of entries      *)
(* accepted meanwhile (counted up to two); harness.pulse is <<duration,    *)
(* level, met>> of the entry popped last.                                  *)
(***************************************************************************)
\* two durations tell the entries apart: the shortest and the longest one
FifoDurations == {0, MaxBeep}

\* buzzer_beep(length) called from the main loop; an accepted entry is one
\* that raised the count
FifoBeep ==
    /\ Len(harness.accepted) < MaxAccepted
    /\ \E length \in FifoDurations :
          /\ buzzer_queue' = buzzer_beep(buzzer_queue, length)
          /\ harness' =
                IF buzzer_queue'.length # buzzer_queue.length
                THEN [harness EXCEPT
                        !.accepted = Append(@, length),
                        !.met = IF buzzer_state # BUZZER_OFF /\ @ < 2
                                THEN @ + 1 ELSE @]
                ELSE harness
    /\ UNCHANGED <<flight_vars, tick_vars, link_vars, cpu_vars>>

\* the 20 ms interrupt; a popped entry is the one the read index leaves
FifoTick ==
    /\ TIMER1_COMPA
    /\ harness' =
          IF buzzer_queue'.index # buzzer_queue.index
          THEN [harness EXCEPT
                  !.played = Append(@, buzzer_queue.queue[buzzer_queue.index].duration),
                  !.pulse = <<buzzer_queue.queue[buzzer_queue.index].duration,
                              harness.level, harness.met>>,
                  !.met = 0,
                  !.level = IF buzzer_state' # BUZZER_OFF
                            THEN <<pin'.BUZZER_PIN>> ELSE <<>>]
          ELSE [harness EXCEPT
                  !.level = IF buzzer_state' # BUZZER_OFF
                            THEN Append(@, pin'.BUZZER_PIN) ELSE @]

NextFifo ==
    \/ FifoBeep
    \/ FifoTick

SpecFifo == InitDefault /\ [][NextFifo]_vars

(***************************************************************************)
(* SpecDrain: the beep queue with the timer interrupt always served.  The  *)
(* main loop calls buzzer_beep() MaxDrain times, with the shortest         *)
(* durations and the longest ones; the queue starts empty at index 0, so   *)
(* the k-th entry accepted lies in slot k - 1, index + length entries were *)
(* accepted and index entries were popped.                                 *)
(***************************************************************************)
\* buzzer_beep(length) called from the main loop
DrainBeep ==
    /\ buzzer_queue.index + buzzer_queue.length < MaxDrain
    /\ \E length \in {0, MaxBeep, BEEP_FOREVER - 1, BEEP_FOREVER} :
          buzzer_queue' = buzzer_beep(buzzer_queue, length)
    /\ UNCHANGED <<flight_vars, tick_vars, link_vars, cpu_vars, harness>>

NextDrain ==
    \/ DrainBeep
    \/ FreeTick

\* timer 1 runs freely and its compare interrupt is always enabled
SpecDrain == InitDefault /\ [][NextDrain]_vars /\ WF_vars(FreeTick)

(***************************************************************************)
(* SpecRx: the receiver fed up to MaxRxBytes bytes from outside, with the  *)
(* replies it sends being transmitted.                                     *)
(***************************************************************************)
\* the framing characters, a plain byte, and whatever the receive CRC
\* accumulator holds (the byte that closes a frame correctly)
RxBytes == {CHAR_START, CHAR_STOP, CHAR_ESCAPE, 0}

RxByte ==
    /\ harness.fed < MaxRxBytes
    /\ harness' = [harness EXCEPT !.fed = @ + 1]
    /\ \E byte \in RxBytes \cup {rx_crc} :
          USART0_RX(byte, DEFAULT_BATTERY_EMPTY_LIMIT + 1)

NextRx ==
    \/ RxByte
    \/ TxComplete

SpecRx == InitDefault /\ [][NextRx]_vars

(***************************************************************************)
(* SpecLink: the link looped back.  The main loop sends one packet through *)
(* lbp_get_tx_buffer() and lbp_send_message(); every byte written to UDR0  *)
(* is received by the device's own receive interrupt, up to the byte that  *)
(* ends the transmission.                                                  *)
(***************************************************************************)
LinkBytes == {CHAR_START, CHAR_STOP, CHAR_ESCAPE, 0}

LinkPackets ==
    { h \o d : h \in [1..3 -> LinkBytes],
               d \in UNION { [1..n -> LinkBytes] : n \in 0..MaxVarData } }
    \cup { <<0, 0, 0>> \o [i \in 1..(LBP_BUFFER_SIZE - 3 - k) |-> 0] :
              k \in 0..MaxShort }

\* the packet p written through the pointer lbp_get_tx_buffer() returned
write_packet(T, p) ==
    [T EXCEPT !.buf = [i \in 1..LBP_BUFFER_SIZE |->
                          IF i <= Len(p) THEN p[i] ELSE @[i]]]

AppSend ==
    /\ harness.sent = <<>>
    /\ tx_link_state = STATE_IDLE
    /\ \E p \in LinkPackets :
          /\ TxSet(lbp_send_message(write_packet(lbp_get_tx_buffer(TxNow).tx, p),
                                    Len(p) - 3))
          /\ harness' = [harness EXCEPT !.sent = p, !.looping = TRUE]
    /\ UNCHANGED <<flight_vars, buzzer_vars, rx_vars, cpu_vars>>

\* the next byte on the line arrives at the receiver
LoopRx ==
    /\ harness.looping
    /\ harness.fed < Len(tx_line)
    /\ USART0_RX(tx_line[harness.fed + 1], DEFAULT_BATTERY_EMPTY_LIMIT + 1)
    /\ harness' = [harness EXCEPT
          !.fed = @ + 1,
          !.dispatches = IF last_rx'.dispatched THEN @ + 1 ELSE @,
          !.looping = ~(tx_link_state = STATE_IDLE
                        /\ harness.fed + 1 = Len(tx_line))]

NextLink ==
    \/ AppSend
    \/ TxComplete
    \/ LoopRx

SpecLink == InitDefault /\ [][NextLink]_vars

(***************************************************************************)
(* SpecSend: one transmission at the level of the statements of            *)
(* lbp_send_message() and of the transmit-complete flag.  A caller running *)
(* with interrupts enabled claims the buffer, fills a packet in and calls  *)
(* lbp_send_message(); the transmit interrupt is delivered when the byte   *)
(* written last has been shifted out, which can be at any moment after the *)
(* write.  A pending interrupt is delivered in the end and the caller      *)
(* keeps running: these are the fairness conditions.                       *)
(***************************************************************************)
\* the packets sent: a header and 0..MaxVarData payload bytes
SendPackets == { p \in LinkPackets : Len(p) <= 3 + MaxVarData }

\* lbp_get_tx_buffer() and the packet written through the pointer; the
\* harness notes the packet and the frame a peer is to see for it
SendAcquire ==
    /\ harness.app = "idle"
    /\ harness.request = <<>>
    /\ \E p \in SendPackets :
          /\ TxSet(write_packet(lbp_get_tx_buffer(TxNow).tx, p))
          /\ harness' = [harness EXCEPT !.request = p, !.sent = Frame(p),
                                        !.app = "holding"]
    /\ UNCHANGED <<flight_vars, buzzer_vars, rx_vars, cpu_vars>>

\* lbp_send_message() up to UDR0 = CHAR_START; the byte is on its way
SendStart ==
    /\ harness.app = "holding"
    /\ TxSet(send_start(TxNow, Len(harness.request) - 3))
    /\ TXC0' = 1
    /\ harness' = [harness EXCEPT !.app = "sending"]
    /\ UNCHANGED <<flight_vars, buzzer_vars, rx_vars, SREG_I, rx_isr>>

\* tx_link_state = STATE_FRAME, and the return
SendState ==
    /\ harness.app = "sending"
    /\ TxSet(send_state(TxNow))
    /\ harness' = [harness EXCEPT !.app = "sent"]
    /\ UNCHANGED <<flight_vars, buzzer_vars, rx_vars, cpu_vars>>

\* the transmit-complete interrupt
TxDeliver ==
    /\ USART0_TX_flagged
    /\ UNCHANGED harness

NextSend ==
    \/ SendAcquire
    \/ SendStart
    \/ SendState
    \/ TxDeliver

SpecSend ==
    /\ InitDefault
    /\ [][NextSend]_vars
    /\ WF_vars(SendState)
    /\ WF_vars(TxDeliver)

(***************************************************************************)
(* SpecIrq: the link at the level of the interrupt flag.  Up to            *)
(* MaxIrqFrames request frames arrive back to back; the receive and        *)
(* transmit interrupts run whenever the flag is set, also inside a handler *)
(* that has set it; the main loop, which runs when no handler is active,   *)
(* claims the transmit buffer up to MaxMainCalls times and sends or        *)
(* discards a message.                                                     *)
(***************************************************************************)
\* the requests on the line: a synchronous Identify from address 1, and a
\* reply of another device, which parse_packet discards
IrqRequests == { <<LBP_SYNC + 1, 0, LBP_IDENTIFY>>,
                 <<LBP_REPLY + 1, 0, LBP_IDENTIFY>> }

\* the frame whose next byte arrives: the one under way or a new one
IrqLines ==
    IF harness.fed < Len(harness.sent) THEN { harness.sent }
    ELSE IF harness.frames < MaxIrqFrames
    THEN { Frame(p) : p \in IrqRequests }
    ELSE {}

\* the receive interrupt is entered
IrqRx ==
    \E line \in IrqLines :
       LET k == IF harness.fed < Len(harness.sent) THEN harness.fed + 1 ELSE 1
       IN /\ harness' = [harness EXCEPT
                            !.sent = line,
                            !.fed = k,
                            !.frames = IF k = 1 THEN @ + 1 ELSE @]
          /\ rx_enter(line[k], DEFAULT_BATTERY_EMPTY_LIMIT + 1)

\* the handler calls lbp_get_tx_buffer()
IrqAcquire ==
    /\ rx_acquire
    /\ harness' = [harness EXCEPT !.refused =
                      IF tx_link_state' = tx_link_state
                      THEN @ \cup {tx_link_state} ELSE @]

\* the handler composes its reply and returns
IrqReply ==
    /\ rx_reply(DEFAULT_BATTERY_EMPTY_LIMIT + 1)
    /\ UNCHANGED harness

\* the transmit-complete interrupt
IrqTx ==
    /\ SREG_I = 1
    /\ USART0_TX
    /\ UNCHANGED harness

\* the message the main loop sends: an asynchronous status, no payload
MainPackets == { <<LBP_ASYNC + LBP_SOURCE_ADDRESS, 0, LBP_STATUS_REQUEST_ASYNC_REPLY>> }

\* the main loop calls lbp_get_tx_buffer()
MainAcquire ==
    /\ rx_isr = <<>>
    /\ harness.app = "idle"
    /\ harness.calls < MaxMainCalls
    /\ LET g == lbp_get_tx_buffer(TxNow) IN
          /\ TxSet(g.tx)
          /\ harness' = [harness EXCEPT
                            !.calls = @ + 1,
                            !.app = IF g.reply THEN "holding" ELSE "idle"]
    /\ UNCHANGED <<flight_vars, buzzer_vars, rx_vars, cpu_vars>>

\* the main loop fills the buffer in and calls lbp_send_message()
MainSend ==
    /\ rx_isr = <<>>
    /\ harness.app = "holding"
    /\ \E p \in MainPackets :
          TxSet(lbp_send_message(write_packet(TxNow, p), Len(p) - 3))
    /\ harness' = [harness EXCEPT !.app = "idle"]
    /\ UNCHANGED <<flight_vars, buzzer_vars, rx_vars, cpu_vars>>

\* the main loop calls lbp_discard_message()
MainDiscard ==
    /\ rx_isr = <<>>
    /\ harness.app = "holding"
    /\ TxSet(lbp_discard_message(TxNow))
    /\ harness' = [harness EXCEPT !.app = "idle"]
    /\ UNCHANGED <<flight_vars, buzzer_vars, rx_vars, cpu_vars>>

NextIrq ==
    \/ IrqRx
    \/ IrqAcquire
    \/ IrqReply
    \/ IrqTx
    \/ MainAcquire
    \/ MainSend
    \/ MainDiscard

SpecIrq == InitDefault /\ [][NextIrq]_vars

(***************************************************************************)
(* SpecBusy: requests that meet a transmit link in use.  The main loop     *)
(* claims the transmit buffer and sends or discards a message, as in       *)
(* SpecIrq, while a request frame that asks for a write arrives byte by    *)
(* byte and the transmit interrupts are served.                            *)
(***************************************************************************)
\* the receive interrupt for the first byte of a request frame: the servo
\* command for the middle position, or the setter of the deploy mode with
\* the value pyro
BusyFirst ==
    /\ harness.fed = Len(harness.sent)
    /\ harness.frames < MaxFrames
    /\ \E p \in { <<LBP_SYNC, 0, LBP_SET_SERVO_POSITION, 128>>,
                   <<LBP_SYNC, 0, LBP_SET_DEPLOY_MODE, 0>> } :
          harness' = [harness EXCEPT !.sent = Frame(p), !.fed = 1,
                                     !.frames = @ + 1]
    /\ USART0_RX(CHAR_START, DEFAULT_BATTERY_EMPTY_LIMIT + 1)

NextBusy ==
    \/ MainAcquire
    \/ MainSend
    \/ MainDiscard
    \/ BusyFirst
    \/ RxNext
    \/ TxComplete

SpecBusy == InitDefault /\ [][NextBusy]_vars

(***************************************************************************)
(* SpecDispatch: one request frame is received byte by byte, dispatched,   *)
(* and the reply, if any, transmitted.  The requests cover the four packet *)
(* types, reserved and domain command ids, known and unknown, and payloads *)
(* of 0..MaxPayload bytes.                                                 *)
(***************************************************************************)
\* type bits with source address 21; with sequence bits 01 the destinfo of
\* the reply is 0x55, which is START
DispatchSrcinfo == { LBP_SYNC + 21, LBP_REPLY + 21, LBP_ASYNC + 21,
                     LBP_BROADCAST + 21 }
DispatchDestinfo == { 0, 64 }

\* the reserved ids, the ids of main.cpp with their neighbours, and 0xFF
DispatchIds == (0..7) \cup {15} \cup (16..26) \cup (31..42) \cup {255}

\* page numbers of every kind, which are also values to set
PayloadBytes == { 0, 1, 2, 16 }

DispatchRequests ==
    { <<s, d, i>> \o pl :
         s \in DispatchSrcinfo, d \in DispatchDestinfo, i \in DispatchIds,
         pl \in UNION { [1..n -> PayloadBytes] : n \in 0..MaxPayload } }
    \cup { <<LBP_SYNC, 0, LBP_GET_BATTERY_VOLTAGE>>,
           <<LBP_ASYNC, 0, LBP_GET_BATTERY_VOLTAGE>> }
    \cup { <<LBP_SYNC + 21, 0, LBP_IDENTIFY>>
              \o [k \in 1..(LBP_BUFFER_SIZE - 3 - n) |-> 0] : n \in {0, 1} }

\* the receive interrupt for the START of the request frame
DispatchFirst ==
    /\ harness.sent = <<>>
    /\ \E p \in DispatchRequests :
          harness' = [harness EXCEPT !.sent = Frame(p), !.fed = 1,
                                     !.request = p]
    /\ \E battery \in BatteryValues : USART0_RX(CHAR_START, battery)

\* the receive interrupt for the next byte of the frame; the battery
\* reading is the one get_battery_value() gives during a dispatch
DispatchNext ==
    /\ harness.fed < Len(harness.sent)
    /\ \E battery \in BatteryValues :
          /\ USART0_RX(harness.sent[harness.fed + 1], battery)
          /\ harness' = [harness EXCEPT
                            !.fed = @ + 1,
                            !.battery = IF last_rx'.dispatched
                                        THEN battery ELSE @]

NextDispatch ==
    \/ DispatchFirst
    \/ DispatchNext
    \/ TxComplete

SpecDispatch == InitDefault /\ [][NextDispatch]_vars

(***************************************************************************)
(* Properties of the flight state machine, checked under Spec.  They speak *)
(* of every poll the main loop can make in a reachable state: Polled(in)   *)
(* is what update_state_machine() leaves when the sensors read in.         *)
(***************************************************************************)
Polled(in) == update_state_machine(in, FlightNow)

\* C1: in Launched, a poll at which the time base is below max_deploy_time
\* and is not (at or above min_deploy_time with the vote asserted) leaves the
\* state Launched and changes no pin and no servo compare value; a poll
\* leaves Launched only for Deployed.
C1_DeployOnlyWhenDue ==
    flight_state = LAUNCHED =>
        \A in \in Inputs :
           /\ Polled(in).flight_state \in {LAUNCHED, DEPLOYED}
           /\ (/\ timer_20ms < eeprom.max_deploy_time
               /\ ~(timer_20ms >= eeprom.min_deploy_time /\ in.vote))
              => /\ Polled(in).flight_state = LAUNCHED
                 /\ Polled(in).pin = pin
                 /\ Polled(in).OCR1B = OCR1B

\* a deployment on the vote: after min_deploy_time, before max_deploy_time
C1_DeployedOnVote ==
    /\ flight_state = DEPLOYED
    /\ eeprom.last_logged_deploy_time >= eeprom.min_deploy_time
    /\ eeprom.last_logged_deploy_time < eeprom.max_deploy_time

\* C2: in Launched with the time base >= max_deploy_time, every poll ends in
\* Deployed with the servo compare value at the open position (servo mode)
\* or the pyro pin on (pyro mode), whatever the vote and min_deploy_time.
C2_MaxTimeDeploys ==
    (flight_state = LAUNCHED /\ timer_20ms >= eeprom.max_deploy_time) =>
        \A in \in Inputs :
           /\ Polled(in).flight_state = DEPLOYED
           /\ IF eeprom.use_servo # 0
              THEN Polled(in).OCR1B = servo_compare(eeprom.servo_open_position)
              ELSE Polled(in).pin.PYRO_PIN = ON

\* a pyro deployment at max_deploy_time with min_deploy_time not yet reached
C2_DeployedAtMax ==
    /\ flight_state = DEPLOYED
    /\ eeprom.last_logged_deploy_time >= eeprom.max_deploy_time
    /\ eeprom.last_logged_deploy_time < eeprom.min_deploy_time
    /\ eeprom.use_servo = 0
    /\ pin.PYRO_PIN = ON

\* C26: once the flight state is Launched, with the timer ticking and the
\* main loop polling, the state eventually becomes Deployed, for every
\* max_deploy_time and however many ticks elapse between two polls.
C26_EventuallyDeployed == (flight_state = LAUNCHED) ~> (flight_state = DEPLOYED)

\* C28: the pyro pin is on only in Deployed, and it is turned on only by a
\* step that takes the flight state from Launched to Deployed with the
\* deploy mode reading pyro (use_servo = 0); no receive interrupt and no
\* other poll turns it on.
C28_PyroOnlyByDeployment ==
    [][/\ pin'.PYRO_PIN = ON => flight_state' = DEPLOYED
       /\ (pin'.PYRO_PIN = ON /\ pin.PYRO_PIN # ON)
          => /\ flight_state = LAUNCHED
             /\ flight_state' = DEPLOYED
             /\ eeprom.use_servo = 0
             /\ \E in \in Inputs : Polled(in).pin = pin']_vars

\* the charge fired in a flight during which a serial command was served
C28_PyroFired ==
    /\ flight_state = DEPLOYED
    /\ pin.PYRO_PIN = ON
    /\ harness.frames = 1
    /\ harness.fed = Len(harness.sent)

\* a step of the receive interrupt that serves the servo command: a
\* synchronous SET_SERVO_POSITION request with one payload byte
ServoCommanded ==
    /\ last_rx'.dispatched
    /\ LBP_TYPE(last_rx'.packet) = LBP_SYNC
    /\ id(last_rx'.packet) = LBP_SET_SERVO_POSITION
    /\ last_rx'.data_length = 1

\* C29 as amended: while the flight state is Armed or Launched, the servo
\* compare value is changed by nothing other than the Launched -> Deployed
\* transition of update_state_machine() and the SET_SERVO_POSITION command
\* of lbp_handler.
C29_ServoHeld ==
    [][(flight_state \in {ARMED, LAUNCHED} /\ OCR1B' # OCR1B)
          => \/ flight_state = LAUNCHED /\ flight_state' = DEPLOYED
             \/ ServoCommanded]_vars

\* C29 as stated: while the flight state is Armed or Launched, the servo
\* compare value is changed by nothing other than the Launched -> Deployed
\* transition of update_state_machine(); no received serial command changes
\* it in those states.
C29_ServoHeldAlways ==
    [][(flight_state \in {ARMED, LAUNCHED} /\ OCR1B' # OCR1B)
          => (flight_state = LAUNCHED /\ flight_state' = DEPLOYED)]_vars

\* the servo taken off its closed position by a command served in Armed
C29_MovedWhileArmed ==
    /\ flight_state = ARMED
    /\ harness.served = ARMED
    /\ eeprom.use_servo # 0
    /\ OCR1B = servo_compare(128)

\* the assignments to flight_state in update_state_machine(), as pairs
\* <<state of the case, state assigned>>
Edges ==
    { <<SYSTEMS_CHECK, ERROR>>, <<SYSTEMS_CHECK, IDLE>>,
      <<ERROR, IDLE>>,
      <<IDLE, ERROR>>, <<IDLE, PREPARATION>>,
      <<PREPARATION, IDLE>>, <<PREPARATION, ERROR>>, <<PREPARATION, ARMED>>,
      <<ARMED, PREPARATION>>, <<ARMED, LAUNCHED>>,
      <<LAUNCHED, DEPLOYED>> }

\* C30: every step that changes the flight state follows one of the edges
\* SystemsCheck -> {Error, Idle}, Error -> Idle, Idle -> {Error,
\* Preparation}, Preparation -> {Idle, Error, Armed}, Armed -> {Preparation,
\* Launched}, Launched -> Deployed; so SystemsCheck is never re-entered,
\* Launched is entered only from Armed, and Launched and Deployed are left
\* for no pre-launch state and not for Error.
C30_TransitionRelation ==
    [][flight_state' # flight_state
          => /\ <<flight_state, flight_state'>> \in Edges
             /\ flight_state' # SYSTEMS_CHECK
             /\ flight_state' = LAUNCHED => flight_state = ARMED
             /\ flight_state \in {LAUNCHED, DEPLOYED} => flight_state' = DEPLOYED]_vars

\* a run through the longest chain of edges: SystemsCheck, Error, Idle,
\* Preparation, Armed, Launched, Deployed
C30_LongestChain ==
    /\ flight_state = DEPLOYED
    /\ harness.transitions = 6

\* C3 as amended: in Armed, a poll at which the breakwire reads disconnected
\* and the arming switch reads armed ends in Launched with the time base at
\* 0 and the launch pin on, whatever the other sensors read.
C3_LaunchWhenArmed ==
    flight_state = ARMED =>
        \A in \in Inputs :
           (~in.breakwire /\ in.armed)
           => /\ Polled(in).flight_state = LAUNCHED
              /\ Polled(in).timer_20ms = 0
              /\ Polled(in).pin.LAUNCH_ASSERTED_PIN = ON

\* C3 as stated: in Armed, a poll at which the breakwire reads disconnected
\* ends in Launched with the time base at 0 and the launch pin on, for every
\* reading of the other sensors.
C3_LaunchAlways ==
    flight_state = ARMED =>
        \A in \in Inputs :
           ~in.breakwire
           => /\ Polled(in).flight_state = LAUNCHED
              /\ Polled(in).timer_20ms = 0
              /\ Polled(in).pin.LAUNCH_ASSERTED_PIN = ON

\* a launch that reset a time base which had counted one tick
C3_LaunchedAfterTick ==
    /\ flight_state = LAUNCHED
    /\ harness.ticks = 1
    /\ timer_20ms = 0
    /\ pin.LAUNCH_ASSERTED_PIN = ON

\* C4: in SystemsCheck, a poll at which the battery reads at or below
\* battery_empty_limit ends in Error, enqueues no beep and leaves the status
\* LED as it was, whatever the other sensors and the deploy mode.
C4_EmptyBatteryFails ==
    flight_state = SYSTEMS_CHECK =>
        \A in \in Inputs :
           in.battery <= eeprom.battery_empty_limit
           => /\ Polled(in).flight_state = ERROR
              /\ Polled(in).buzzer_queue = buzzer_queue
              /\ Polled(in).pin.LED_PIN = pin.LED_PIN

\* the systems check failed in servo mode, where only the battery can fail
C4_FailedOnBattery ==
    /\ flight_state = ERROR
    /\ harness.transitions = 1
    /\ eeprom.use_servo # 0
    /\ buzzer_queue.length = 0
    /\ pin.LED_PIN = OFF

\* C5: in Error, a poll ends in Idle if the switch reads not armed, the
\* battery reads above battery_empty_limit and the deploy mode is servo or
\* the squib reads connected, and in Error otherwise; and no step of any
\* handler takes the state from Error to anything but Idle.
C5_ErrorExit ==
    /\ [](flight_state = ERROR =>
            \A in \in Inputs :
               Polled(in).flight_state =
                  IF /\ ~in.armed
                     /\ in.battery > eeprom.battery_empty_limit
                     /\ (eeprom.use_servo # 0 \/ in.squib)
                  THEN IDLE ELSE ERROR)
    /\ [][flight_state = ERROR => flight_state' \in {ERROR, IDLE}]_vars

\* Idle reached through Error: systems check failed, then the error cleared
C5_RecoveredToIdle ==
    /\ flight_state = IDLE
    /\ harness.transitions = 2
    /\ pin.LED_PIN = ON

\* C6: once the state is Deployed every step (poll, tick, receive or
\* transmit interrupt) leaves it Deployed, and a poll changes no pin, no
\* servo compare value, nothing of the configuration or the time base, and
\* nothing of the beep queue except by enqueuing BEEP_LONG when it is empty.
C6_DeployedTerminal ==
    /\ [](flight_state = DEPLOYED =>
            \A in \in Inputs :
               \/ Polled(in) = FlightNow
               \/ /\ buzzer_queue.length = 0
                  /\ Polled(in) =
                       [FlightNow EXCEPT
                          !.buzzer_queue.length = 1,
                          !.buzzer_queue.queue[buzzer_queue.index].duration =
                               BEEP_LONG])
    /\ [][flight_state = DEPLOYED => flight_state' = DEPLOYED]_vars

\* Deployed in servo mode, and a servo command handled since: the compare
\* value is the commanded one, not the open position the deployment set
C6_CommandAfterDeployment ==
    /\ flight_state = DEPLOYED
    /\ eeprom.use_servo # 0
    /\ OCR1B = servo_compare(128)
    /\ harness.ticks = MaxTicks

(***************************************************************************)
(* Properties of the link layer.                                           *)
(***************************************************************************)
\* C7: once the frame of a packet sent through the looped-back link has been
\* received to its last byte, parse_packet has been called exactly once, at
\* that last byte, on a receive buffer that starts with the header and
\* payload sent, and with the payload length sent.
C7_RoundTrip ==
    (harness.sent # <<>> /\ ~harness.looping) =>
        /\ harness.dispatches = 1
        /\ last_rx.dispatched
        /\ last_rx.data_length = Len(harness.sent) - 3
        /\ SubSeq(last_rx.packet, 1, Len(harness.sent)) = harness.sent

C24_IdleIgnoresNoise ==
    [][(/\ harness'.fed # harness.fed
        /\ rx_link_state = STATE_IDLE
        /\ last_rx'.byte # CHAR_START)
       => /\ rx_link_state' = STATE_IDLE
          /\ lbp_rx_buffer' = lbp_rx_buffer
          /\ rx_crc' = rx_crc
      ]_vars

\* C9: the accumulator obtained by folding a byte sequence from 0 and then
\* folding that accumulator itself is 0.
C9_CrcSelfCheck == harness.closed => harness.acc = 0

\* a sequence of MaxCrcLen bytes closed by its CRC
C9_ClosedSequence ==
    /\ harness.closed
    /\ harness.folded = MaxCrcLen

\* the levels of the buzzer pin a beep of duration d is played with: d + 1
\* ticks on, then d + 1 ticks off
Beeped(d) == [k \in 1..(2 * (d + 1)) |-> IF k <= d + 1 THEN 1 ELSE 0]

\* C27: every entry popped by buzzer_tick() was played with the buzzer pin on
\* for a run of consecutive ticks and then off for a run of the same number
\* of ticks, the number given by the duration of the entry alone (duration
\* + 1), whatever was enqueued while the entry was played.
C27_HalfDuty ==
    harness.pulse # <<>> => harness.pulse[2] = Beeped(harness.pulse[1])

\* the longest beep, popped after two entries were accepted while it was
\* played
C27_EnqueuedMeanwhile ==
    /\ harness.pulse # <<>>
    /\ harness.pulse[1] = MaxBeep
    /\ harness.pulse[3] = 2

\* C32 as amended: with the timer ticking, the k-th entry accepted is
\* eventually popped if neither it nor an entry accepted before it has the
\* duration 255; an entry of duration 255 at the read index is never popped.
C32_DrainsBelowForever ==
    /\ \A k \in 1..MaxDrain :
          (/\ buzzer_queue.index + buzzer_queue.length >= k
           /\ \A i \in 0..(k - 1) : buzzer_queue.queue[i].duration # BEEP_FOREVER)
             ~> (buzzer_queue.index >= k)
    /\ [][(/\ buzzer_queue.length # 0
           /\ buzzer_queue.queue[buzzer_queue.index].duration = BEEP_FOREVER)
             => buzzer_queue'.index = buzzer_queue.index]_vars

\* C32 as stated: with the timer ticking, the k-th entry accepted is
\* eventually popped, whatever the durations in 0..255.
C32_AlwaysDrains ==
    \A k \in 1..MaxDrain :
       (buzzer_queue.index + buzzer_queue.length >= k) ~> (buzzer_queue.index >= k)

\* the queue drained of MaxDrain entries, the first of them of duration 254
C32_Drained ==
    /\ buzzer_queue.index = MaxDrain
    /\ buzzer_queue.length = 0
    /\ buzzer_queue.queue[0].duration = BEEP_FOREVER - 1
    /\ buzzer_state = BUZZER_OFF

\* C10: the queue count is within 0..BUZZER_QUEUE_SIZE, and at count
\* BUZZER_QUEUE_SIZE a call of buzzer_beep(), whatever its argument, leaves
\* the count, the read index and every entry as they are.
C10_QueueBound ==
    /\ buzzer_queue.length \in 0..BUZZER_QUEUE_SIZE
    /\ buzzer_queue.length = BUZZER_QUEUE_SIZE =>
          \A length \in Byte : buzzer_beep(buzzer_queue, length) = buzzer_queue

\* the queue full again after entries were popped
C10_FullAfterPops ==
    /\ buzzer_queue.length = BUZZER_QUEUE_SIZE
    /\ buzzer_queue.index # 0
    /\ buzzer_state = BUZZER_COOLDOWN

\* C33: in phase On or Cooldown the queue count is at least 1 (the entry at
\* the read index is an accepted one and a pop does not take the count
\* below 0), and the buzzer pin is on exactly when the phase is On.
C33_PhaseConsistent ==
    /\ buzzer_state \in {BUZZER_ON, BUZZER_COOLDOWN} => buzzer_queue.length >= 1
    /\ pin.BUZZER_PIN = 1 <=> buzzer_state = BUZZER_ON

\* the second beep of a queue that was refilled while it played, sounding
C33_SoundingAfterPop ==
    /\ buzzer_state = BUZZER_ON
    /\ pin.BUZZER_PIN = 1
    /\ buzzer_queue.index = 1
    /\ buzzer_queue.length = BUZZER_QUEUE_SIZE
    /\ current_beep_duration = MaxBeep

\* C23: in the frame the transmit path puts on the line for a packet, START
\* occurs only as the first byte and STOP only as the last, and once the
\* transmission has ended the bytes in between are the header, the payload
\* and the CRC with every START, STOP and ESCAPE among them replaced by
\* ESCAPE and the inverted byte.
C23_DelimiterTransparency ==
    (harness.request # <<>> /\ tx_line # <<>>) =>
        /\ tx_line[1] = CHAR_START
        /\ \A k \in 2..Len(tx_line) : tx_line[k] # CHAR_START
        /\ \A k \in 1..Len(tx_line) :
              tx_line[k] = CHAR_STOP
                 => (k = Len(tx_line) /\ tx_link_state = STATE_IDLE)
        /\ tx_link_state = STATE_IDLE =>
              tx_line = <<CHAR_START>> \o Stuff(Append(harness.request, tx_crc))
                           \o <<CHAR_STOP>>

\* C22: once lbp_send_message() has started a transmission, the transmit
\* state returns to Idle, so that lbp_get_tx_buffer() succeeds again, with
\* the line carrying START, the stuffed header and payload, the stuffed CRC
\* and STOP, wherever between the statements of lbp_send_message() the first
\* transmit-complete interrupt is delivered.
C22_TransmissionCompletes ==
    (harness.app = "sending")
       ~> (lbp_get_tx_buffer(TxNow).reply /\ tx_line = harness.sent)

(***************************************************************************)
(* Properties of the beep queue as a FIFO, checked under SpecFifo.         *)
(***************************************************************************)
\* the durations of the entries in the queue, oldest first
Window(q) ==
    [k \in 1..q.length |-> q.queue[(q.index + k - 1) % BUZZER_QUEUE_SIZE].duration]

\* C11: at every moment the durations buzzer_beep() accepted are, in order,
\* the durations buzzer_tick() has played and popped followed by the entries
\* still in the queue from the read index on: entries come out in the order
\* and with the durations they went in, and none is overwritten while it
\* waits.
C11_FifoOrder ==
    harness.accepted = harness.played \o Window(buzzer_queue)

\* two entries played and popped, the newest of those accepted since sitting
\* in the slot the first one left: the queue has wrapped around its end
C11_WrappedAround ==
    /\ Len(harness.accepted) = MaxAccepted
    /\ buzzer_queue.length = BUZZER_QUEUE_SIZE - 1
    /\ Len(harness.played) = 2
    /\ harness.played = <<MaxBeep, 0>>
    /\ buzzer_queue.queue[0].duration = MaxBeep

(***************************************************************************)
(* Properties of the dispatcher, checked under SpecDispatch.  They speak   *)
(* of the request whose frame has been received to its STOP and handed to  *)
(* parse_packet, and of the reply as composed in the transmit buffer and   *)
(* as a peer decodes it from the line once it has been transmitted.        *)
(***************************************************************************)
\* the request was received whole and the receiver called parse_packet
Dispatched ==
    /\ harness.request # <<>>
    /\ harness.fed = Len(harness.sent)
    /\ last_rx.dispatched

\* type bits (0 synchronous, 1 reply, 2 asynchronous, 3 broadcast), command
\* id and payload of the request
ReqType == harness.request[1] \div 64
ReqId == harness.request[3]
ReqPayload == SubSeq(harness.request, 4, Len(harness.request))

\* a transmission was started / has ended with the STOP on the line
ReplyStarted == tx_line # <<>>
ReplyComplete == tx_line # <<>> /\ tx_link_state = STATE_IDLE

\* what a peer makes of the bytes between START and STOP: pairs of ESCAPE
\* and an inverted byte put back
RECURSIVE Destuff(_)
Destuff(bytes) ==
    IF bytes = <<>> THEN <<>>
    ELSE IF Head(bytes) = CHAR_ESCAPE /\ Len(bytes) >= 2
    THEN <<Not8(bytes[2])>> \o Destuff(SubSeq(bytes, 3, Len(bytes)))
    ELSE <<Head(bytes)>> \o Destuff(Tail(bytes))

\* header, payload and CRC of the reply on the line
LineReply == Destuff(SubSeq(tx_line, 2, Len(tx_line) - 1))

\* the reply composed in the transmit buffer has payload pl
Composed(pl) ==
    /\ lbp_tx_buffer_length = Len(pl) + 3
    /\ \A k \in 1..Len(pl) : lbp_tx_buffer[3 + k] = pl[k]

\* the reply transmitted is a frame with a CRC that checks and payload pl
Transmitted(pl) ==
    /\ tx_line[1] = CHAR_START
    /\ tx_line[Len(tx_line)] = CHAR_STOP
    /\ Len(LineReply) = Len(pl) + 4
    /\ CrcOf(LineReply) = 0
    /\ SubSeq(LineReply, 4, Len(LineReply) - 1) = pl

\* a reply with payload pl is sent: composed, and transmitted as such
Replies(pl) ==
    /\ ReplyStarted
    /\ Composed(pl)
    /\ ReplyComplete => Transmitted(pl)

\* nothing is sent and nothing set
NoReply ==
    /\ tx_line = <<>>
    /\ tx_link_state = STATE_IDLE
    /\ eeprom = DefaultConfig
    /\ OCR1B = 0

\* C14: a synchronous Identify request (id 2) that was dispatched, whatever
\* its source address, sequence number and payload, is answered with a
\* reply whose payload is the two bytes 0xB0, 0x01.
C14_IdentifyReply ==
    (Dispatched /\ ReqType = 0 /\ ReqId = 2) => Replies(<<176, 1>>)

\* the reply to an Identify request with a payload, transmitted to its STOP,
\* with the destinfo 0x55 escaped on the line
C14_IdentifyTransmitted ==
    /\ Dispatched /\ ReqType = 0 /\ ReqId = 2
    /\ Len(ReqPayload) = MaxPayload
    /\ ReplyComplete
    /\ SubSeq(tx_line, 3, 4) = <<CHAR_ESCAPE, Not8(CHAR_START)>>

\* the command ids lbp_handler is to know, and the payload length of each
\* setter
KnownGetters == {16, 17, 18, 19, 20, 21, 22, 23, 25}
KnownSetters == {32, 33, 36, 37, 38, 39, 40, 41}
Required(i) == IF i \in {32, 33} THEN 2 ELSE 1

\* C15: a dispatched synchronous request with id >= 0x10 that is a setter
\* with a payload of the wrong length, a getter with a payload, or an id
\* that is neither, is answered with a reply of id Nack (1) and empty
\* payload, and neither the configuration nor the servo compare value is
\* written.
C15_HandlerNack ==
    (/\ Dispatched /\ ReqType = 0 /\ ReqId >= 16
     /\ \/ ReqId \in KnownSetters /\ Len(ReqPayload) # Required(ReqId)
        \/ ReqId \in KnownGetters /\ ReqPayload # <<>>
        \/ ReqId \notin KnownGetters \cup KnownSetters)
    => /\ Replies(<<>>)
       /\ lbp_tx_buffer[3] = 1
       /\ ReplyComplete => LineReply[3] = 1
       /\ eeprom = DefaultConfig
       /\ OCR1B = 0

\* the Nack to a two-byte setter sent one byte, transmitted
C15_ShortSetterNacked ==
    /\ Dispatched /\ ReqType = 0 /\ ReqId = 32
    /\ ReqPayload = <<1>>
    /\ ReplyComplete
    /\ LineReply[3] = 1

C17_AsyncSilent ==
    (Dispatched /\ ReqType = 2 /\ ReqId \notin {2, 6}) => NoReply

\* C17 as stated: a dispatched asynchronous request with any id and any
\* payload transmits nothing, leaves the transmit link Idle and sets nothing.
C17_AsyncNeverReplies ==
    (Dispatched /\ ReqType = 2) => NoReply

\* an asynchronous request for a setter with the payload it requires was
\* dispatched and dropped
C17_AsyncSetterDropped ==
    /\ Dispatched /\ ReqType = 2 /\ ReqId = 40
    /\ ReqPayload = <<16>>
    /\ NoReply

\* C18: a dispatched synchronous request with a reserved id other than 1, 2,
\* 3, 4 and 6 is answered with a reply of id Nack (1) and empty payload; the
\* same request sent asynchronously transmits nothing.
C18_ReservedNack ==
    /\ (Dispatched /\ ReqType = 0 /\ ReqId < 16 /\ ReqId \notin {1, 2, 3, 4, 6})
          => /\ Replies(<<>>)
             /\ lbp_tx_buffer[3] = 1
             /\ ReplyComplete => LineReply[3] = 1
    /\ (Dispatched /\ ReqType = 2 /\ ReqId < 16 /\ ReqId \notin {1, 2, 3, 4, 6})
          => NoReply

\* C19: a dispatched synchronous Extended-Identify request (id 3) is
\* answered with payload 0x0B, 0x00 for page 0 or no payload, with the 8
\* bytes "SRP V0.0" for page 1, and with an empty payload for every other
\* page.
C19_ExtendedIdentify ==
    (Dispatched /\ ReqType = 0 /\ ReqId = 3) =>
        LET page == IF ReqPayload = <<>> THEN 0 ELSE ReqPayload[1] IN
        Replies(CASE page = 0 -> <<11, 0>>
                  [] page = 1 -> <<83, 82, 80, 32, 86, 48, 46, 48>>
                  [] OTHER -> <<>>)

\* the name transmitted in reply to page 1, its 'P' (0x50, ESCAPE) escaped
C19_NameTransmitted ==
    /\ Dispatched /\ ReqType = 0 /\ ReqId = 3
    /\ ReqPayload = <<1>>
    /\ ReplyComplete
    /\ Len(LineReply) = 12
    /\ \E k \in 1..(Len(tx_line) - 1) :
          SubSeq(tx_line, k, k + 1) = <<CHAR_ESCAPE, Not8(80)>>

\* C21: whatever request was dispatched (any type, id and payload length),
\* the handler has released the transmit buffer it claimed by the time it
\* returns: the transmit state is never left Filling, and it is Idle with
\* nothing on the line (the message discarded) unless a transmission was
\* started (the message sent).
C21_BufferReleased ==
    /\ tx_link_state # STATE_FILLING
    /\ Dispatched =>
          \/ tx_line = <<>> /\ tx_link_state = STATE_IDLE
          \/ tx_line # <<>> /\ lbp_tx_buffer_length >= 3

\* a reply of another device was dispatched: the buffer was claimed (the
\* source address is in it), the destination filled in, and the message
\* discarded
C21_ClaimedAndDiscarded ==
    /\ Dispatched /\ ReqType = 1
    /\ lbp_tx_buffer[1] = LBP_SOURCE_ADDRESS
    /\ lbp_tx_buffer[2] = 21 + 64
    /\ tx_link_state = STATE_IDLE
    /\ tx_line = <<>>

\* C31: a receive interrupt that completes a request while the transmit link
\* is not Idle changes nothing of the transmit side (link state, CRC,
\* buffer, length, index, bytes on the line: no reply is sent or queued) and
\* does not run lbp_handler: the configuration and the servo compare value
\* stay as they are.
C31_BusyDropped ==
    [][(/\ harness'.fed # harness.fed
        /\ last_rx'.dispatched
        /\ tx_link_state # STATE_IDLE)
          => /\ UNCHANGED tx_vars
             /\ eeprom' = eeprom
             /\ OCR1B' = OCR1B]_vars

\* a servo command that was received whole while the message of the main
\* loop was on the line, and did not move the servo
C31_CommandDropped ==
    /\ last_rx.dispatched
    /\ id(last_rx.packet) = LBP_SET_SERVO_POSITION
    /\ OCR1B = 0
    /\ tx_link_state = STATE_FRAME
    /\ tx_line # <<>>
    /\ lbp_tx_buffer[3] = LBP_STATUS_REQUEST_ASYNC_REPLY

\* C25: the reply to a dispatched synchronous request, whether its id is
\* reserved (< 0x10) or not, carries the type bits 01 (reply) in its srcinfo
\* byte and, as destinfo, the 6-bit source address of the request combined
\* with the 2-bit sequence field of the request, in the transmit buffer and
\* on the line.
C25_ReplyHeader ==
    (Dispatched /\ ReqType = 0 /\ ReplyStarted) =>
        LET dest == (harness.request[1] % 64) + 64 * (harness.request[2] \div 64)
        IN /\ lbp_tx_buffer[1] \div 64 = 1
           /\ lbp_tx_buffer[2] = dest
           /\ ReplyComplete => /\ LineReply[1] \div 64 = 1
                               /\ LineReply[2] = dest

(***************************************************************************)
(* Properties of the transmit buffer arbitration and of the interrupt      *)
(* flag, checked under SpecIrq.                                            *)
(***************************************************************************)
\* the callers that were handed the transmit buffer and have neither sent
\* nor discarded yet
Holders ==
    (IF harness.app = "holding" THEN {"main"} ELSE {})
    \cup { k \in DOMAIN rx_isr : rx_isr[k].pc = "reply" }

\* C12: lbp_get_tx_buffer() called in transmit state Idle returns the
\* buffer and leaves the state Filling; called in any other state it returns
\* NULL and leaves state, buffer, index, length and CRC as they are; and at
\* every moment at most one caller, main loop or interrupt handler, holds
\* the buffer, the transmit state being Filling exactly while one does.
C12_TxArbitration ==
    /\ LET g == lbp_get_tx_buffer(TxNow) IN
          IF tx_link_state = STATE_IDLE
          THEN /\ g.reply
               /\ g.tx.state = STATE_FILLING
          ELSE /\ ~g.reply
               /\ g.tx = TxNow
    /\ Cardinality(Holders) <= 1
    /\ Holders # {} <=> tx_link_state = STATE_FILLING

\* the main loop holds the buffer; handlers were refused it both while a
\* caller was filling it and while a frame was being transmitted
C12_RefusedWhileHeld ==
    /\ harness.app = "holding"
    /\ STATE_FILLING \in harness.refused
    /\ STATE_FRAME \in harness.refused

\* C13: in a receive interrupt handler that has called lbp_get_tx_buffer()
\* from parse_packet and was returned the buffer, the interrupt flag is
\* still cleared for the rest of parse_packet.
C13_MaskedAfterAcquire ==
    (rx_isr # <<>> /\ top_isr.pc = "reply") => SREG_I = 0

\* C20: while a receive interrupt handler is inside parse_packet no further
\* receive interrupt runs, and the receive buffer changes only by what
\* parse_packet itself does as it finishes.
C20_RxStableInDispatch ==
    [][rx_isr # <<>> =>
          /\ <<harness'.frames, harness'.fed>> = <<harness.frames, harness.fed>>
          /\ rx_isr' # <<>> => lbp_rx_buffer' = lbp_rx_buffer
      ]_vars

=============================================================================
